---- MODULE Spec2Model ----
(***************************************************************************)
(* A model of scripts/dts/dtlib.py (the DTS parser, its post-processing    *)
(* and its serializer) and of scripts/dts/edtlib.py (binding loading and   *)
(* merging, address translation, nexus mapping).                           *)
(*                                                                         *)
(* Each part of the program has its own variables and its own              *)
(* specification; the variables of the other parts stay at their idle      *)
(* values while one part runs.                                             *)
(***************************************************************************)
EXTENDS Integers, Sequences, FiniteSets, TLC

VARIABLES
    binding,        \* edtlib: the parsed YAML of a top-level binding file
    merged,         \* edtlib: what _load_binding() returned for it
    tnodes,         \* edtlib: the nodes from the root down to a node with 'reg'
    tcall,          \* edtlib: the running call of _translate()
    tres,           \* edtlib: how the outermost _translate() ended
    nxnodes,        \* edtlib: the properties of the nodes of a nexus tree
    nxstack,        \* edtlib: the running calls of _map_gpio() and _map()
    nxres,          \* edtlib: how the outermost mapping call ended
    include_constructor, \* yaml: the EDT whose _binding_include() is registered
    bdirs,          \* edtlib: the bindings directory of each EDT being built
    bpc,            \* edtlib: where each EDT is in _init_compat2binding()
    compat2binding, \* edtlib: _compat2binding of each EDT
    tree,           \* dtlib: the nodes of the DT being built, by path
    stack,          \* dtlib: the nodes whose _parse_node() calls are running
    toplabel,       \* dtlib: 'label' of _parse_dt() while '&ref { ... }' is parsed
    pc,             \* dtlib: the step DT.__init__() has reached
    err,            \* dtlib: the exception that ended DT.__init__()
    memreserves,    \* dtlib: DT.memreserves
    phandle2node,   \* dtlib: DT.phandle2node
    alias2node,     \* dtlib: DT.alias2node
    pruned,         \* dtlib: the nodes _remove_unreferenced() took from the tree
    discarded,      \* dtlib: the references of the values and nodes the parser dropped
    label2node,     \* dtlib: DT.label2node
    label2prop,     \* dtlib: DT.label2prop
    label2prop_offset, \* dtlib: DT.label2prop_offset
    last,           \* the statement that the parser read last
    budget,         \* how many more statements of each kind the source holds
    input,          \* the text of str(dt) that is parsed again, if any
    first,          \* the DT whose text is parsed again, if any
    expr_in,        \* dtlib: the tokens an expression or a cell array is read from
    expr_out,       \* dtlib: what the evaluation of expr_in ended with
    fs,             \* dtlib: the files that open() finds, by path
    self_filename,  \* dtlib: DT.filename
    _lineno,        \* dtlib: DT._lineno
    _file_contents, \* dtlib: DT._file_contents
    _tok_end_i,     \* dtlib: DT._tok_end_i
    _filestack,     \* dtlib: DT._filestack
    _lexer_state,   \* dtlib: DT._lexer_state
    lexpc,          \* dtlib: where the lexer is in _next_token()
    token_stream,   \* dtlib: the tokens _next_token() has returned
    query,          \* dtlib: the last call of get_node() or has_node()
    _dt,            \* edtlib: EDT._dt, the nodes and phandle2node of the tree
    bindings_dir,   \* edtlib: the binding files, as _binding_paths() lists them
    _compat2binding, \* edtlib: EDT._compat2binding, by (compatible, bus)
    devices,        \* edtlib: EDT.devices
    _node2dev,      \* edtlib: EDT._node2dev
    edt_pc          \* edtlib: the step EDT.__init__() has reached

mergevars == <<binding, merged>>
transvars == <<tnodes, tcall, tres>>
nexusvars == <<nxnodes, nxstack, nxres>>
buildvars == <<include_constructor, bdirs, bpc, compat2binding>>
indexvars == <<phandle2node, alias2node, label2node, label2prop,
               label2prop_offset>>
exprvars == <<expr_in, expr_out>>
lexvars == <<fs, self_filename, _lineno, _file_contents, _tok_end_i, _filestack,
             _lexer_state, lexpc, token_stream>>
parservars == <<tree, stack, toplabel, pc, err, memreserves, indexvars, pruned, discarded,
                last,
                budget, input, first>>
devicevars == <<_dt, bindings_dir, _compat2binding, devices, _node2dev, edt_pc>>
dtvars == <<parservars, exprvars, lexvars, query, devicevars>>

vars == <<binding, merged, tnodes, tcall, tres, nxnodes, nxstack, nxres,
          include_constructor, bdirs, bpc, compat2binding,
          tree, stack, toplabel, pc, err, memreserves, phandle2node,
          alias2node, pruned, discarded, label2node, label2prop, label2prop_offset, last,
          budget,
          input, first, expr_in, expr_out, fs, self_filename, _lineno,
          _file_contents, _tok_end_i, _filestack, _lexer_state, lexpc,
          token_stream, query, _dt, bindings_dir, _compat2binding, devices,
          _node2dev, edt_pc>>

(***************************************************************************)
(* The idle values of each part.                                           *)
(***************************************************************************)
MergeIdle == binding = <<>> /\ merged = [loaded |-> FALSE]

TransIdle == tnodes = <<>> /\ tcall = [st |-> "none"] /\ tres = [st |-> "none"]

NexusIdle == nxnodes = <<>> /\ nxstack = <<>> /\ nxres = [st |-> "none"]

BuildIdle ==
    /\ include_constructor = 0 /\ bdirs = <<>> /\ bpc = <<>>
    /\ compat2binding = <<>>

ParserIdle ==
    /\ tree = <<>> /\ stack = <<>> /\ toplabel = <<>> /\ pc = "idle"
    /\ err = <<>> /\ memreserves = <<>> /\ phandle2node = <<>>
    /\ alias2node = <<>> /\ label2node = <<>> /\ label2prop = <<>>
    /\ label2prop_offset = <<>> /\ pruned = <<>> /\ discarded = {}
    /\ last = <<>>
    /\ budget = <<>>
    /\ input = <<>> /\ first = <<>>

ExprIdle == expr_in = <<>> /\ expr_out = <<>>

LexIdle ==
    /\ fs = <<>> /\ self_filename = <<>> /\ _lineno = 0 /\ _file_contents = <<>>
    /\ _tok_end_i = 0 /\ _filestack = <<>> /\ _lexer_state = "idle"
    /\ lexpc = "idle" /\ token_stream = <<>>

QueryIdle == query = <<>>

DeviceIdle ==
    /\ _dt = <<>> /\ bindings_dir = <<>> /\ _compat2binding = <<>>
    /\ devices = <<>> /\ _node2dev = <<>> /\ edt_pc = "idle"

DtIdle == ParserIdle /\ ExprIdle /\ LexIdle /\ QueryIdle /\ DeviceIdle

None == "None"

(***************************************************************************)
(* Small helpers on sequences and functions.                               *)
(***************************************************************************)
Range(s) == {s[i] : i \in DOMAIN s}

Max(a, b) == IF a >= b THEN a ELSE b

(***************************************************************************)
(*                    edtlib.py: merging of bindings                       *)
(*                                                                         *)
(* A YAML value is a scalar (a string), a dictionary or a list:            *)
(*   [t |-> "s", v |-> string], [t |-> "d", d |-> function],               *)
(*   [t |-> "l", l |-> sequence].                                          *)
(***************************************************************************)
S(v) == [t |-> "s", v |-> v]
D(d) == [t |-> "d", d |-> d]
L(l) == [t |-> "l", l |-> l]

\* isinstance(x, dict)
IsDict(x) == x.t = "d"

\* The dictionary with no key
EmptyDict == [k \in {} |-> None]

\* The result of an operation that raises EDTError
EDTError == [ok |-> FALSE]
Ok(d) == [ok |-> TRUE, d |-> d]

\* _bad_overwrite() with the category test the wrong way round
BadOverwriteCategoryReversed(to_dict, from_dict, prop) ==
    IF prop \notin DOMAIN to_dict \/ to_dict[prop] = from_dict[prop]
    THEN FALSE
    ELSE IF prop \in {"title", "version", "description"}
    THEN FALSE
    ELSE IF /\ prop = "category"
            /\ to_dict["category"] = S("required")
            /\ from_dict["category"] = S("optional")
    THEN FALSE
    ELSE TRUE

\* _bad_overwrite(): TRUE if overwriting to_dict[prop] with from_dict[prop]
\* seems bad
_bad_overwrite(to_dict, from_dict, prop) ==
    IF prop \notin DOMAIN to_dict \/ to_dict[prop] = from_dict[prop]
    THEN FALSE
    ELSE IF prop \in {"title", "version", "description"}
    THEN FALSE
    ELSE IF /\ prop = "category"
            /\ to_dict["category"] = S("optional")
            /\ from_dict["category"] = S("required")
    THEN FALSE
    ELSE TRUE

\* _merge_props(): merges from_dict into to_dict. The loop raises at the
\* first bad overwrite, so the merge fails iff some key is one; otherwise
\* every key of from_dict is merged (two dictionaries) or copied.
RECURSIVE _merge_props(_, _)
_merge_props(to_dict, from_dict) ==
    LET both(p) == /\ IsDict(from_dict[p])
                   /\ p \in DOMAIN to_dict
                   /\ IsDict(to_dict[p])
        sub(p) == _merge_props(to_dict[p].d, from_dict[p].d)
        bad == \E p \in DOMAIN from_dict :
                   IF both(p) THEN ~sub(p).ok
                   ELSE _bad_overwrite(to_dict, from_dict, p)
    IN  IF bad THEN EDTError
        ELSE Ok([p \in DOMAIN to_dict \cup DOMAIN from_dict |->
                    IF p \notin DOMAIN from_dict THEN to_dict[p]
                    ELSE IF both(p) THEN D(sub(p).d)
                    ELSE from_dict[p]])

\* _check_expected_props(): the top-level node has title, version and
\* description
_check_expected_props(yaml_top) ==
    \A prop \in {"title", "version", "description"} : prop \in DOMAIN yaml_top

\* dict.pop('inherits'): the dictionary without that key
Pop(d, key) == [k \in DOMAIN d \ {key} |-> d[k]]

\* _merge_binding(): merges yaml_top into the bindings of its 'inherits:'
\* list, one after the other; each merged result becomes the new yaml_top
RECURSIVE _merge_binding(_)
RECURSIVE MergeInherits(_, _)
MergeInherits(yaml_top, inherits) ==
    IF inherits = <<>> THEN Ok(yaml_top)
    ELSE LET inherited == _merge_binding(Head(inherits))
         IN  IF ~inherited.ok THEN EDTError
             ELSE LET m == _merge_props(inherited.d, yaml_top)
                  IN  IF ~m.ok THEN EDTError
                      ELSE MergeInherits(m.d, Tail(inherits))

_merge_binding(yaml_top) ==
    IF ~_check_expected_props(yaml_top) THEN EDTError
    ELSE IF "inherits" \in DOMAIN yaml_top
    THEN MergeInherits(Pop(yaml_top, "inherits"), yaml_top["inherits"].l)
    ELSE Ok(yaml_top)

\* _load_binding(): yaml.load() has left the included files in 'inherits'
_load_binding(yaml_top) == _merge_binding(yaml_top)

(***************************************************************************)
(* The binding files the merge is run on. The including file has a fixed   *)
(* title, version and description; an included file has any of the eight   *)
(* combinations. 'properties' is missing or holds 'p' (with any category   *)
(* and type) and 'q' (a dictionary or a scalar).                           *)
(***************************************************************************)
Categories == {"optional", "required"}
Types == {"int", "string"}

PropDicts ==
    {[k \in ks |-> IF k = "category" THEN S(c) ELSE S(ty)] :
        ks \in SUBSET {"category", "type"}, c \in Categories, ty \in Types}

QValues == {D([k \in {"type"} |-> S("int")]), S("flag")}

PropertiesValues ==
    {D([k \in ks |-> IF k = "p" THEN pd ELSE qv]) :
        ks \in SUBSET {"p", "q"}, pd \in {D(x) : x \in PropDicts}, qv \in QValues}

Header(ti, ve, de) ==
    [k \in {"title", "version", "description"} |->
        IF k = "title" THEN S(ti) ELSE IF k = "version" THEN S(ve) ELSE S(de)]

\* A binding file's own keys: the header and, maybe, 'properties'
Bodies(headers) ==
    headers \cup
    {[k \in DOMAIN h \cup {"properties"} |->
        IF k = "properties" THEN pv ELSE h[k]] :
        h \in headers, pv \in PropertiesValues}

IncluderBodies == Bodies({Header("t1", "v1", "d1")})

IncludedBodies ==
    Bodies({Header(ti, ve, de) :
        ti \in {"t1", "t2"}, ve \in {"v1", "v2"}, de \in {"d1", "d2"}})

\* A second included file, for an 'inherits' list of two
SecondIncluded ==
    {Header("t3", "v3", "d3"),
     [k \in {"title", "version", "description", "properties"} |->
        IF k = "properties"
        THEN D([n \in {"p"} |-> D([c \in {"category"} |-> S("optional")])])
        ELSE Header("t3", "v3", "d3")[k]]}

WithInherits(body, inherits) ==
    [k \in DOMAIN body \cup {"inherits"} |->
        IF k = "inherits" THEN L(inherits) ELSE body[k]]

\* No binding file has been read, no result has been returned
NotLoaded == [loaded |-> FALSE]

MergeInit ==
    /\ \E top \in IncluderBodies, inc \in IncludedBodies :
          \/ binding = WithInherits(top, <<inc>>)
          \/ \E inc2 \in SecondIncluded :
                binding = WithInherits(top, <<inc, inc2>>)
    /\ merged = NotLoaded
    /\ TransIdle /\ NexusIdle /\ BuildIdle /\ DtIdle

\* EDT._init_compat2binding() calling _load_binding() on one binding file
LoadBinding ==
    /\ binding # EmptyDict
    /\ merged = NotLoaded
    /\ merged' = _load_binding(binding)
    /\ UNCHANGED <<binding, transvars, nexusvars, buildvars, dtvars>>

MergeNext == LoadBinding

MergeSpec == MergeInit /\ [][MergeNext]_vars

(***************************************************************************)
(* C9                                                                      *)
(***************************************************************************)
\* The including file's own keys and the files it includes
IncluderOf(b) == Pop(b, "inherits")
IncludedOf(b) == b["inherits"].l

\* Every key of from_dict is in out with from_dict's value, inside nested
\* dictionaries too
RECURSIVE Overrides(_, _)
Overrides(out, from_dict) ==
    \A k \in DOMAIN from_dict :
        /\ k \in DOMAIN out
        /\ IF IsDict(from_dict[k]) /\ IsDict(out[k])
           THEN Overrides(out[k].d, from_dict[k].d)
           ELSE out[k] = from_dict[k]

\* Every key of the included file is in out, with the included file's value
\* when none of the dictionaries in tops (the including file, and the files
\* listed before it in the same 'inherits') defines the key
RECURSIVE Keeps(_, _, _)
Keeps(out, inc, tops) ==
    \A k \in DOMAIN inc :
        /\ k \in DOMAIN out
        /\ IF IsDict(inc[k]) /\ IsDict(out[k])
           THEN Keeps(out[k].d, inc[k].d,
                      {t[k].d : t \in {u \in tops :
                                          k \in DOMAIN u /\ IsDict(u[k])}})
           ELSE (\A t \in tops : k \notin DOMAIN t) => out[k] = inc[k]

\* The keys both files define with different values, as <<key, included
\* value, including value>>, inside nested dictionaries too
RECURSIVE Changes(_, _)
Changes(inc, top) ==
    UNION {IF IsDict(inc[k]) /\ IsDict(top[k])
           THEN Changes(inc[k].d, top[k].d)
           ELSE IF inc[k] # top[k] THEN {<<k, inc[k], top[k]>>} ELSE {} :
           k \in DOMAIN inc \cap DOMAIN top}

Widening(c) == c[1] = "category" /\ c[2] = S("optional") /\ c[3] = S("required")

HeaderChange(c) == c[1] \in {"title", "version", "description"}

CellSize == 1024

\* to_num() on a whole number of cells: the big-endian number
RECURSIVE to_num_cells(_)
to_num_cells(cells) ==
    IF cells = <<>> THEN 0
    ELSE to_num_cells(SubSeq(cells, 1, Len(cells) - 1)) * CellSize
         + cells[Len(cells)]

\* The cells of number n in an n_cells-cell field (what dtc's < ... > makes)
RECURSIVE Cells(_, _)
Cells(n, n_cells) ==
    IF n_cells = 0 THEN <<>>
    ELSE Append(Cells(n \div CellSize, n_cells - 1), n % CellSize)

\* _address_cells(node), for a node that has a parent
_address_cells(parent) ==
    IF "#address-cells" \in DOMAIN parent.props
    THEN to_num_cells(parent.props["#address-cells"])
    ELSE 2

\* _size_cells(node), for a node that has a parent
_size_cells(parent) ==
    IF "#size-cells" \in DOMAIN parent.props
    THEN to_num_cells(parent.props["#size-cells"])
    ELSE 1

\* _slice(): the value in chunks of 'size' cells
_slice(value, size) ==
    [i \in 1..(Len(value) \div size) |->
        SubSeq(value, (i - 1) * size + 1, i * size)]

\* The test of _translate() with a window that excludes its end
InWindowExclusive(child_addr, addr, child_len) ==
    child_addr <= addr /\ addr < child_addr + child_len

\* The test of _translate(): is 'addr' within range of a translation
InWindow(child_addr, addr, child_len) ==
    child_addr <= addr /\ addr <= child_addr + child_len

\* How one call of _translate(addr, node) ends, node being tnodes[i]:
\*   [st |-> "ret", addr |-> a]        it returns a
\*   [st |-> "call", addr |-> a]       it calls _translate(a, node.parent)
\*   [st |-> "EDTError"]               _slice() raises
\*   [st |-> "AttributeError"]         a property of None is read
_translate(addr, i) ==
    IF i = 1
    THEN \* node.parent is None
         [st |-> "AttributeError"]
    ELSE
    LET parent == tnodes[i - 1] IN
    IF "ranges" \notin DOMAIN parent.props
    THEN [st |-> "ret", addr |-> addr]
    ELSE IF parent.props["ranges"] = <<>>
    THEN [st |-> "call", addr |-> addr]
    ELSE IF i - 1 = 1
    THEN \* _address_cells(node.parent) reads node.parent.parent.props
         [st |-> "AttributeError"]
    ELSE
    LET child_address_cells == _address_cells(parent)
        parent_address_cells == _address_cells(tnodes[i - 2])
        child_size_cells == _size_cells(parent)
        entry_cells ==
            child_address_cells + parent_address_cells + child_size_cells
        ranges == parent.props["ranges"]
        raw == _slice(ranges, entry_cells)
        child_addr(r) == to_num_cells(SubSeq(raw[r], 1, child_address_cells))
        child_len(r) ==
            to_num_cells(SubSeq(raw[r],
                          child_address_cells + parent_address_cells + 1,
                          entry_cells))
        parent_addr(r) ==
            to_num_cells(SubSeq(raw[r], child_address_cells + 1,
                          child_address_cells + parent_address_cells))
        hits == {r \in DOMAIN raw : InWindow(child_addr(r), addr, child_len(r))}
    IN  IF Len(ranges) % entry_cells # 0
        THEN [st |-> "EDTError"]
        ELSE IF hits = {}
        THEN [st |-> "ret", addr |-> addr]
        ELSE LET r == CHOOSE x \in hits : \A y \in hits : x <= y
             IN  [st |-> "call",
                  addr |-> parent_addr(r) + addr - child_addr(r)]

(***************************************************************************)
(* The trees translation is run on: a chain of 1..MaxDepth ancestors above *)
(* the node with 'reg'. The 'ranges' of an ancestor are absent, empty, one *)
(* or two windows <<child address, parent address, length>> encoded with   *)
(* the cell counts in force, or a window cut short by a cell;              *)
(* '#address-cells' is absent (2 cells) or <1>.                            *)
(***************************************************************************)
MaxDepth == 3

W1 == <<0, 256, 16>>
W2 == <<16, 512, 16>>
W3 == <<256, 768, 32>>

WindowLists == {<<W1>>, <<W2>>, <<W3>>, <<W1, W2>>, <<W2, W1>>}

RegAddrs == {0, 15, 16, 32, 33, 272, 288}

\* The values of '#address-cells' in the trees: <<>> for no property
AddressCellsChoices == {<<>>, <<1>>}

AcOf(ac) == IF ac = <<>> THEN 2 ELSE ac[1]

RECURSIVE EncodeRanges(_, _, _, _)
EncodeRanges(ws, cac, pac, csc) ==
    IF ws = <<>> THEN <<>>
    ELSE Cells(ws[1][1], cac) \o Cells(ws[1][2], pac) \o Cells(ws[1][3], csc)
         \o EncodeRanges(Tail(ws), cac, pac, csc)

\* A node with the '#address-cells' choice ac and the properties in more
TNode(ac, more) ==
    [props |-> IF ac = <<>> THEN more ELSE more @@ ("#address-cells" :> ac)]

NoProps == [k \in {} |-> <<>>]

\* The 'ranges' of a node whose children have cac address cells and which
\* itself has pac: no property, an empty one, windows, a window cut short
RangesChoices(cac, pac, lists) ==
    {NoProps, "ranges" :> <<>>}
    \cup {"ranges" :> EncodeRanges(ws, cac, pac, 1) : ws \in lists}
    \cup {"ranges" :> Tail(EncodeRanges(<<W2>>, cac, pac, 1))}

\* The ancestors of a node at depth n, the root first
RECURSIVE Ancestors(_)
Ancestors(n) ==
    IF n = 1
    THEN {<<TNode(ac, r)>> :
             ac \in AddressCellsChoices,
             r \in RangesChoices(2, 2, {<<W1>>})}
    ELSE UNION {UNION {{c \o <<TNode(ac, r)>> :
                           r \in RangesChoices(AcOf(ac),
                                               _address_cells(c[n - 1]),
                                               WindowLists)} :
                       ac \in AddressCellsChoices} :
                c \in Ancestors(n - 1)}

Leaf == [props |-> NoProps]

\* No call of _translate() is running, none has ended
NoCall == [st |-> "none"]

TransInit ==
    /\ \E n \in 1..MaxDepth : \E c \in Ancestors(n) : tnodes = c \o <<Leaf>>
    /\ \E a \in RegAddrs :
           tcall = [st |-> "call", addr0 |-> a, addr |-> a, node |-> Len(tnodes)]
    /\ tres = NoCall
    /\ MergeIdle /\ NexusIdle /\ BuildIdle /\ DtIdle

\* One call of _translate(): it returns or raises, which ends the outermost
\* call the same way, or it calls itself on the parent node
Translate ==
    /\ tcall.st = "call"
    /\ LET r == _translate(tcall.addr, tcall.node)
       IN  IF r.st = "call"
           THEN /\ tcall' = [tcall EXCEPT !.addr = r.addr, !.node = @ - 1]
                /\ UNCHANGED tres
           ELSE /\ tcall' = [tcall EXCEPT !.st = "done"]
                /\ tres' = r
    /\ UNCHANGED <<tnodes, mergevars, nexusvars, buildvars, dtvars>>

TransNext == Translate

TransSpec == TransInit /\ [][TransNext]_vars

(***************************************************************************)
(* C8                                                                      *)
(***************************************************************************)
\* The translation the claim describes, for the node tnodes[i]: no ranges
\* on the parent (or no parent) returns the address, empty ranges pass it
\* up, the first window with child_addr <= addr < child_addr + length maps
\* it and passes it up, no such window returns it
RECURSIVE ClaimedTranslation(_, _)
ClaimedTranslation(addr, i) ==
    IF i = 1 \/ "ranges" \notin DOMAIN tnodes[i - 1].props
    THEN addr
    ELSE IF tnodes[i - 1].props["ranges"] = <<>>
    THEN ClaimedTranslation(addr, i - 1)
    ELSE
    LET cac == _address_cells(tnodes[i - 1])
        pac == IF i - 1 = 1 THEN 2 ELSE _address_cells(tnodes[i - 2])
        csc == _size_cells(tnodes[i - 1])
        raw == _slice(tnodes[i - 1].props["ranges"], cac + pac + csc)
        c_addr(r) == to_num_cells(SubSeq(raw[r], 1, cac))
        p_addr(r) == to_num_cells(SubSeq(raw[r], cac + 1, cac + pac))
        len(r) == to_num_cells(SubSeq(raw[r], cac + pac + 1, cac + pac + csc))
        hits == {r \in DOMAIN raw :
                    c_addr(r) <= addr /\ addr < c_addr(r) + len(r)}
    IN  IF hits = {} THEN addr
        ELSE LET r == CHOOSE x \in hits : \A y \in hits : x <= y
             IN  ClaimedTranslation(p_addr(r) + (addr - c_addr(r)), i - 1)

\* C8: an address that translation returns is the one obtained by mapping it
\* level by level through the first window [child_addr, child_addr + length)
\* that contains it.
C8_AddressTranslation ==
    tres.st = "ret" => tres.addr = ClaimedTranslation(tcall.addr0, Len(tnodes))

\* A translation through two levels of windows has returned
C8_Witness ==
    /\ tres.st = "ret"
    /\ Len(tnodes) = 4
    /\ tcall.node = 2
    /\ tres.addr # tcall.addr0
    /\ tres.addr = ClaimedTranslation(tcall.addr0, Len(tnodes))

(***************************************************************************)
(*                edtlib.py: mapping through *-map properties              *)
(*                                                                         *)
(* A property value is a sequence of bytes (0..255), a cell is four bytes. *)
(* nxnodes maps a node name to its properties, a function from property    *)
(* names to values.  A frame of nxstack holds the arguments of one call    *)
(* and, once the call has found its row, the row.                          *)
(***************************************************************************)
\* to_num() on a 'bytes' value: big-endian
RECURSIVE to_num(_)
to_num(data) ==
    IF data = <<>> THEN 0
    ELSE to_num(SubSeq(data, 1, Len(data) - 1)) * 256 + data[Len(data)]

\* x & y, x | y and ~x & 0xFF on bytes
RECURSIVE BitAnd(_, _)
BitAnd(x, y) ==
    IF x = 0 \/ y = 0 THEN 0
    ELSE (x % 2) * (y % 2) + 2 * BitAnd(x \div 2, y \div 2)

BitOr(x, y) == x + y - BitAnd(x, y)

BitNot(x) == 255 - x

\* bytes.rjust(width, fill)
rjust(b, width, fill) ==
    IF Len(b) >= width THEN b
    ELSE [i \in 1..width |->
              IF i <= width - Len(b) THEN fill ELSE b[i - (width - Len(b))]]

_and(b1, b2) ==
    LET maxlen == Max(Len(b1), Len(b2))
    IN  [i \in 1..maxlen |->
             BitAnd(rjust(b1, maxlen, 255)[i], rjust(b2, maxlen, 255)[i])]

_or(b1, b2) ==
    LET maxlen == Max(Len(b1), Len(b2))
    IN  [i \in 1..maxlen |->
             BitOr(rjust(b1, maxlen, 0)[i], rjust(b2, maxlen, 0)[i])]

_not(b) == [i \in 1..Len(b) |-> BitNot(b[i])]

\* dt.phandle2node for the nodes of nxnodes that have a 'phandle'
NxPhandle2node(nodes) ==
    LET withph == {n \in DOMAIN nodes : "phandle" \in DOMAIN nodes[n]}
    IN  [ph \in {to_num(nodes[n]["phandle"]) : n \in withph} |->
             CHOOSE n \in withph : to_num(nodes[n]["phandle"]) = ph]

NxError(msg) == [st |-> "EDTError", msg |-> msg]

\* lambda node: 4*_gpio_cells(node)
spec_len_fn(nodes, node) ==
    IF "#gpio-cells" \notin DOMAIN nodes[node]
    THEN NxError("lacks #gpio-cells")
    ELSE [st |-> "ok", len |-> 4 * to_num(nodes[node]["#gpio-cells"])]

_mask(nodes, prefix, parent, child_spec) ==
    IF (prefix \o "-map-mask") \notin DOMAIN nodes[parent]
    THEN [st |-> "ok", spec |-> child_spec]
    ELSE LET mask == nodes[parent][prefix \o "-map-mask"]
         IN  IF Len(mask) # Len(child_spec)
             THEN NxError("expected mask to be as long as the child specifier")
             ELSE [st |-> "ok", spec |-> _and(child_spec, mask)]

\* res[-n:] of Python: the last n items, and all of them when n is 0
LastItems(res, n) ==
    IF n = 0 THEN res ELSE SubSeq(res, Len(res) - n + 1, Len(res))

_pass_thru(nodes, prefix, parent, child_spec, parent_spec) ==
    IF (prefix \o "-map-pass-thru") \notin DOMAIN nodes[parent]
    THEN [st |-> "ok", spec |-> parent_spec]
    ELSE LET pass_thru == nodes[parent][prefix \o "-map-pass-thru"]
             res == _or(_and(child_spec, pass_thru),
                        _and(parent_spec, _not(pass_thru)))
         IN  IF Len(pass_thru) # Len(child_spec)
             THEN NxError("expected pass-thru to be as long as the child specifier")
             ELSE [st |-> "ok", spec |-> LastItems(res, Len(parent_spec))]

\* The row that a call of _map() has matched, and no row
NoRow == [matched |-> FALSE]
Row(entry, map_parent, parent_spec) ==
    [matched |-> TRUE, child_spec_entry |-> entry, map_parent |-> map_parent,
     parent_spec |-> parent_spec]

\* The 'while raw:' loop of _map(): the rows are read one by one, and the
\* first one whose child specifier equals masked_child_spec ends the loop
RECURSIVE MapRows(_, _, _, _, _, _)
MapRows(nodes, prefix, parent, child_spec, masked_child_spec, raw) ==
    IF raw = <<>> THEN NxError("child specifier does not appear in the map")
    ELSE IF Len(raw) < Len(child_spec)
    THEN NxError("missing/truncated child specifier")
    ELSE
    LET child_spec_entry == SubSeq(raw, 1, Len(child_spec))
        raw1 == SubSeq(raw, Len(child_spec) + 1, Len(raw))
    IN
    IF Len(raw1) < 4 THEN NxError("missing/truncated phandle")
    ELSE
    LET phandle == to_num(SubSeq(raw1, 1, 4))
        raw2 == SubSeq(raw1, 5, Len(raw1))
    IN
    IF phandle \notin DOMAIN NxPhandle2node(nodes) THEN NxError("bad phandle")
    ELSE
    LET map_parent == NxPhandle2node(nodes)[phandle]
        map_parent_spec_len == spec_len_fn(nodes, map_parent)
    IN
    IF map_parent_spec_len.st # "ok" THEN map_parent_spec_len
    ELSE IF Len(raw2) < map_parent_spec_len.len
    THEN NxError("missing/truncated parent specifier")
    ELSE
    LET parent_spec == SubSeq(raw2, 1, map_parent_spec_len.len)
        raw3 == SubSeq(raw2, map_parent_spec_len.len + 1, Len(raw2))
    IN
    IF child_spec_entry = masked_child_spec
    THEN LET passed == _pass_thru(nodes, prefix, parent, child_spec, parent_spec)
         IN  IF passed.st # "ok" THEN passed
             ELSE [st |-> "call", parent |-> map_parent,
                   child_spec |-> passed.spec,
                   row |-> Row(child_spec_entry, map_parent, parent_spec)]
    ELSE MapRows(nodes, prefix, parent, child_spec, masked_child_spec, raw3)

\* One call of _map(): it returns (parent, child_spec), raises, or calls
\* itself on the parent of the matched row
_map(nodes, prefix, child, parent, child_spec) ==
    IF (prefix \o "-map") \notin DOMAIN nodes[parent]
    THEN IF (prefix \o "-controller") \notin DOMAIN nodes[parent]
         THEN NxError("expected controller property")
         ELSE [st |-> "ret", node |-> parent, spec |-> child_spec]
    ELSE LET masked_child_spec == _mask(nodes, prefix, parent, child_spec)
         IN  IF masked_child_spec.st # "ok" THEN masked_child_spec
             ELSE MapRows(nodes, prefix, parent, child_spec,
                          masked_child_spec.spec, nodes[parent][prefix \o "-map"])

\* One call of _map_gpio()
_map_gpio(nodes, child, parent, child_spec) ==
    IF "gpio-map" \notin DOMAIN nodes[parent]
    THEN [st |-> "ret", node |-> parent, spec |-> child_spec]
    ELSE [st |-> "call", parent |-> parent, child_spec |-> child_spec]

Frame(fn, child, parent, child_spec) ==
    [fn |-> fn, child |-> child, parent |-> parent, child_spec |-> child_spec,
     row |-> NoRow]

\* The depth of calls at which Python raises RecursionError
RecursionLimit == 4

Top == nxstack[Len(nxstack)]

\* _gpios() calls _map_gpio(), which returns or calls _map()
MapGpio ==
    /\ nxres.st = "none" /\ nxstack # <<>> /\ Top.fn = "_map_gpio"
    /\ LET r == _map_gpio(nxnodes, Top.child, Top.parent, Top.child_spec)
       IN  IF r.st = "call"
           THEN /\ nxstack' = Append(nxstack, Frame("_map", Top.child,
                                                    r.parent, r.child_spec))
                /\ UNCHANGED nxres
           ELSE /\ nxres' = r
                /\ UNCHANGED nxstack
    /\ UNCHANGED <<nxnodes, mergevars, transvars, buildvars, dtvars>>

\* The innermost call of _map() runs: it ends the mapping by returning or
\* raising, or it calls _map() again, which Python refuses at its limit
Map ==
    /\ nxres.st = "none" /\ nxstack # <<>> /\ Top.fn = "_map"
    /\ LET r == _map(nxnodes, "gpio", Top.child, Top.parent, Top.child_spec)
       IN  IF r.st = "call"
           THEN IF Len(nxstack) >= RecursionLimit
                THEN /\ nxres' = [st |-> "RecursionError"]
                     /\ UNCHANGED nxstack
                ELSE /\ nxstack' =
                            Append([nxstack EXCEPT ![Len(nxstack)].row = r.row],
                                   Frame("_map", Top.parent, r.parent,
                                         r.child_spec))
                     /\ UNCHANGED nxres
           ELSE /\ nxres' = r
                /\ UNCHANGED nxstack
    /\ UNCHANGED <<nxnodes, mergevars, transvars, buildvars, dtvars>>

NexusNext == MapGpio \/ Map

(***************************************************************************)
(* The trees the mapping runs on: a consumer 'node', a nexus with a        *)
(* gpio-map of up to MaxRows rows, a second nexus behind it, and a node    *)
(* 'ctrl' that may or may not be a controller.                             *)
(***************************************************************************)
MaxRows == 2

\* < n > and < n n ... >
NxCell(n) == <<0, 0, 0, n>>

RECURSIVE NxCells(_, _)
NxCells(n, n_cells) ==
    IF n_cells = 0 THEN <<>> ELSE NxCell(n) \o NxCells(n, n_cells - 1)

PropsOf(pairs) ==
    [name \in {p[1] : p \in pairs} |-> (CHOOSE p \in pairs : p[1] = name)[2]]

\* What '#gpio-cells' of 'ctrl' can be; Absent stands for no such property
Absent == 0 - 1

CtrlCells == {Absent, 0, 1, 2}

NexusCells == {1, 2}

CellsNum(c) == IF c = Absent THEN 1 ELSE c

\* Child specifiers of n_cells cells
ChildSpecs(n_cells) ==
    IF n_cells = 0 THEN {<<>>}
    ELSE {NxCell(v) \o NxCells(1, n_cells - 1) : v \in {1, 3}}

MaskChoices(n_cells) ==
    {<<>>, <<<<"gpio-map-mask", NxCells(1, n_cells)>>>>,
     <<<<"gpio-map-mask", NxCells(1, n_cells + 1)>>>>}

PassThruChoices(n_cells) ==
    {<<>>, <<<<"gpio-map-pass-thru", NxCells(2, n_cells)>>>>,
     <<<<"gpio-map-pass-thru", NxCells(2, n_cells + 1)>>>>}

NxTargets == {"ctrl", "nexus2", "dangling"}

PhandleOf(name) ==
    CASE name = "nexus" -> 1 [] name = "nexus2" -> 2 [] name = "ctrl" -> 3
      [] OTHER -> 9

\* The cells of the parent specifier in a row for 'target'
TargetCells(target, nc, cc) ==
    CASE target = "nexus" -> nc [] target = "ctrl" -> CellsNum(cc)
      [] OTHER -> 1

\* The bytes of the rows 'rows', the i-th with the parent specifier 16*i
RECURSIVE EncodeRows(_, _, _, _)
EncodeRows(rows, i, nc, cc) ==
    IF i > Len(rows) THEN <<>>
    ELSE rows[i].child \o NxCell(PhandleOf(rows[i].target))
         \o NxCells(16 * i, TargetCells(rows[i].target, nc, cc))
         \o EncodeRows(rows, i + 1, nc, cc)

RowLists(nc) ==
    UNION {[1..n -> [child : ChildSpecs(nc), target : NxTargets]] : n \in 0..MaxRows}

NxTree(nc, cc, cctl, mask, pass, rows, n2target) ==
    [n \in {"node", "nexus", "nexus2", "ctrl"} |->
        CASE n = "node" -> <<>>
          [] n = "nexus" ->
               PropsOf({<<"phandle", NxCell(1)>>, <<"#gpio-cells", NxCell(nc)>>,
                        <<"gpio-map", EncodeRows(rows, 1, nc, cc)>>}
                       \cup Range(mask) \cup Range(pass))
          [] n = "nexus2" ->
               PropsOf({<<"phandle", NxCell(2)>>, <<"#gpio-cells", NxCell(1)>>,
                        <<"gpio-map-mask", NxCell(0)>>,
                        <<"gpio-map",
                          NxCell(0) \o NxCell(PhandleOf(n2target))
                          \o NxCells(1, TargetCells(n2target, nc, cc))>>})
          [] n = "ctrl" ->
               PropsOf({<<"phandle", NxCell(3)>>}
                       \cup (IF cc = Absent THEN {}
                             ELSE {<<"#gpio-cells", NxCell(cc)>>})
                       \cup (IF cctl THEN {<<"gpio-controller", <<>> >>}
                             ELSE {}))]

NexusInit ==
    /\ \E nc \in NexusCells, cc \in CtrlCells, cctl \in BOOLEAN,
          n2target \in {"ctrl", "nexus"} :
       \E mask \in MaskChoices(nc), pass \in PassThruChoices(nc),
          rows \in RowLists(nc) :
           nxnodes = NxTree(nc, cc, cctl, mask, pass, rows, n2target)
    /\ \E parent \in {"nexus", "ctrl"} :
           /\ "#gpio-cells" \in DOMAIN nxnodes[parent]
           /\ \E child_spec \in ChildSpecs(to_num(nxnodes[parent]["#gpio-cells"])) :
                  nxstack = <<Frame("_map_gpio", "node", parent, child_spec)>>
    /\ nxres = [st |-> "none"]
    /\ MergeIdle /\ TransIdle /\ BuildIdle /\ DtIdle

NexusSpec == NexusInit /\ [][NexusNext]_vars

(***************************************************************************)
(* C7                                                                      *)
(***************************************************************************)
\* The byte of 'b' that is k bytes from its right end, zero beyond its left end
ByteFromRight(b, k) == IF k < Len(b) THEN b[Len(b) - k] ELSE 0

\* (child_spec AND pass_thru) OR (row_parent_spec AND NOT pass_thru), as a
\* specifier of the width of the row's parent specifier
ClaimedForward(child_spec, pass_thru, row_parent_spec) ==
    [i \in 1..Len(row_parent_spec) |->
        LET k == Len(row_parent_spec) - i
        IN  BitOr(BitAnd(ByteFromRight(child_spec, k), ByteFromRight(pass_thru, k)),
                  BitAnd(row_parent_spec[i],
                         BitNot(ByteFromRight(pass_thru, k))))]

\* The child specifier ANDed with the mask, unmasked when there is no mask
ClaimedMasked(props, child_spec) ==
    IF "gpio-map-mask" \in DOMAIN props
    THEN [i \in 1..Len(child_spec) |->
              BitAnd(child_spec[i], props["gpio-map-mask"][i])]
    ELSE child_spec

\* The first row of the map 'raw' whose child-specifier field is 'masked'
RECURSIVE ClaimedRow(_, _, _)
ClaimedRow(nodes, raw, masked) ==
    LET n == Len(masked)
        target == NxPhandle2node(nodes)[to_num(SubSeq(raw, n + 1, n + 4))]
        plen == 4 * to_num(nodes[target]["#gpio-cells"])
    IN  IF SubSeq(raw, 1, n) = masked
        THEN [parent |-> target, parent_spec |-> SubSeq(raw, n + 5, n + 4 + plen)]
        ELSE ClaimedRow(nodes, SubSeq(raw, n + 5 + plen, Len(raw)), masked)

\* What the claim says the call above nxstack[i] was given
ClaimedCall(i) ==
    LET f == nxstack[i]
        props == nxnodes[f.parent]
        row == ClaimedRow(nxnodes, props["gpio-map"],
                          ClaimedMasked(props, f.child_spec))
    IN  [parent |-> row.parent,
         child_spec |->
            IF "gpio-map-pass-thru" \in DOMAIN props
            THEN ClaimedForward(f.child_spec, props["gpio-map-pass-thru"],
                                row.parent_spec)
            ELSE row.parent_spec]

\* C7: whenever a call of _map() on a receiver with a map has forwarded a
\* specifier, the receiver of the forwarded call is the parent of the first
\* row whose child field equals the masked child specifier, and the forwarded
\* specifier is (child_spec AND pass_thru) OR (row_parent_spec AND NOT
\* pass_thru) with a pass-thru property and row_parent_spec without one.
C7_NexusRowPassThru ==
    \A i \in 1..(Len(nxstack) - 1) :
        nxstack[i].fn = "_map" =>
            /\ nxstack[i + 1].parent = ClaimedCall(i).parent
            /\ nxstack[i + 1].child_spec = ClaimedCall(i).child_spec

\* A mapping that selected the second row and passed bits through
C7_Witness ==
    /\ Len(nxstack) >= 3 /\ nxstack[2].fn = "_map"
    /\ "gpio-map-pass-thru" \in DOMAIN nxnodes[nxstack[2].parent]
    /\ "gpio-map-mask" \in DOMAIN nxnodes[nxstack[2].parent]
    /\ nxstack[2].row.parent_spec = NxCell(32)
    /\ nxstack[3].child_spec = NxCell(34)
    /\ nxstack[2].child_spec = NxCell(3)
    /\ nxres.st = "ret"

(***************************************************************************)
(*        edtlib.py: EDT._init_compat2binding() of several EDT objects     *)
(*                                                                         *)
(* A bindings directory is a function from file names to files; a file has *)
(* its own keys ('body'), the names after 'inherits: !include' and the     *)
(* compatible string of its 'constraint:' line (None without one).         *)
(* yaml.Loader.add_constructor() sets a class attribute of yaml.Loader,    *)
(* which is one per process: include_constructor is the EDT whose bound    *)
(* method _binding_include() it holds, 0 before any registration.          *)
(***************************************************************************)
ConstructorError == [ok |-> FALSE, err |-> "ConstructorError"]

\* yaml.load() of 'file' while the !include constructor looks files up in
\* 'binding_paths', and _binding_include_file() for one name
RECURSIVE yaml_load(_, _)
_binding_include_file(binding_paths, filename) ==
    IF filename \notin DOMAIN binding_paths THEN ConstructorError
    ELSE yaml_load(binding_paths, binding_paths[filename])

yaml_load(binding_paths, file) ==
    IF file.include = <<>> THEN Ok(file.body)
    ELSE LET incs == [i \in DOMAIN file.include |->
                         _binding_include_file(binding_paths, file.include[i])]
         IN  IF \E i \in DOMAIN incs : ~incs[i].ok THEN ConstructorError
             ELSE Ok(WithInherits(file.body,
                                  [i \in DOMAIN incs |-> incs[i].d]))

\* _load_binding(path) of an EDT while the registered constructor is that of
\* the EDT with the directory 'binding_paths'
LoadFile(binding_paths, file) ==
    LET y == yaml_load(binding_paths, file)
    IN  IF ~y.ok THEN y
        ELSE LET m == _load_binding(y.d)
             IN  IF m.ok THEN m ELSE [ok |-> FALSE, err |-> "EDTError"]

\* The order in which _binding_paths() lists the files of a directory
PathOrder == <<"base.yaml", "dev.yaml", "soc.yaml">>

\* The compatible strings of the device tree
dt_compats == {"vnd,dev", "vnd,soc"}

\* One iteration of 'for binding_path in self._binding_paths' of EDT b
LoopStep(b, handler_paths) ==
    LET i == bpc[b].i
        name == PathOrder[i]
        is_last == i = Len(PathOrder)
        next == [st |-> IF is_last THEN "done" ELSE "loading", i |-> i + 1]
    IN  IF name \notin DOMAIN bdirs[b] \/ bdirs[b][name].compat \notin dt_compats
        THEN /\ bpc' = [bpc EXCEPT ![b] = next]
             /\ UNCHANGED compat2binding
        ELSE LET r == LoadFile(handler_paths, bdirs[b][name])
             IN  IF r.ok
                 THEN /\ compat2binding' =
                            [compat2binding EXCEPT ![b] =
                                [c \in DOMAIN @ \cup {bdirs[b][name].compat} |->
                                    IF c = bdirs[b][name].compat THEN r.d
                                    ELSE @[c]]]
                      /\ bpc' = [bpc EXCEPT ![b] = next]
                 ELSE /\ bpc' = [bpc EXCEPT ![b] = [st |-> r.err, i |-> i]]
                      /\ UNCHANGED compat2binding

\* self._binding_paths = ...; yaml.Loader.add_constructor("!include", ...)
RegisterInclude(b) ==
    /\ bpc[b].st = "new"
    /\ include_constructor' = b
    /\ bpc' = [bpc EXCEPT ![b] = [st |-> "loading", i |-> 1]]
    /\ UNCHANGED <<bdirs, compat2binding, mergevars, transvars, nexusvars,
                   dtvars>>

\* One iteration of the loop over the binding files
LoadBindingFile(b) ==
    /\ bpc[b].st = "loading"
    /\ LoopStep(b, bdirs[include_constructor])
    /\ UNCHANGED <<include_constructor, bdirs, mergevars, transvars, nexusvars,
                   dtvars>>

NBuilds == 2

BuildNext ==
    \E b \in 1..NBuilds : RegisterInclude(b) \/ LoadBindingFile(b)

(***************************************************************************)
(* The directories: 'dev.yaml' and 'soc.yaml' describe devices of the      *)
(* tree and may include 'base.yaml', which a directory has in one of two   *)
(* versions or lacks.                                                      *)
(***************************************************************************)
BindingFile(body, include, compat) ==
    [body |-> body, include |-> include, compat |-> compat]

WithProperties(header, category) ==
    [k \in DOMAIN header \cup {"properties"} |->
        IF k = "properties"
        THEN D([n \in {"p"} |-> D([c \in {"category"} |-> S(category)])])
        ELSE header[k]]

BaseFiles ==
    {BindingFile(WithProperties(Header("base", "v1", "d1"), c), <<>>, None) :
        c \in Categories}

IncludeChoices == {<<>>, <<"base.yaml">>}

BindingDirs ==
    UNION {
        {[n \in {"dev.yaml", "soc.yaml"} |->
             IF n = "dev.yaml"
             THEN BindingFile(Header("dev", "v1", "d1"), di, "vnd,dev")
             ELSE BindingFile(WithProperties(Header("soc", "v1", "d1"),
                                             "optional"), si, "vnd,soc")]}
        \cup
        {[n \in {"base.yaml", "dev.yaml", "soc.yaml"} |->
             IF n = "base.yaml" THEN base
             ELSE IF n = "dev.yaml"
             THEN BindingFile(Header("dev", "v1", "d1"), di, "vnd,dev")
             ELSE BindingFile(WithProperties(Header("soc", "v1", "d1"),
                                             "optional"), si, "vnd,soc")] :
            base \in BaseFiles} :
        di \in IncludeChoices, si \in IncludeChoices}

BuildInit ==
    /\ include_constructor = 0
    /\ bdirs \in [1..NBuilds -> BindingDirs]
    /\ bpc = [b \in 1..NBuilds |-> [st |-> "new", i |-> 0]]
    /\ compat2binding = [b \in 1..NBuilds |-> <<>>]
    /\ MergeIdle /\ TransIdle /\ NexusIdle /\ DtIdle

BuildSpec == BuildInit /\ [][BuildNext]_vars

(***************************************************************************)
(* C10                                                                     *)
(***************************************************************************)
\* What _init_compat2binding() leaves when it runs alone on directory 'dir',
\* from the i-th file on: how it ended and the bindings it has loaded
RECURSIVE AloneFrom(_, _, _)
AloneFrom(dir, i, loaded) ==
    IF i > Len(PathOrder) THEN [st |-> "done", compat2binding |-> loaded]
    ELSE LET name == PathOrder[i]
         IN  IF name \notin DOMAIN dir \/ dir[name].compat \notin dt_compats
             THEN AloneFrom(dir, i + 1, loaded)
             ELSE LET r == LoadFile(dir, dir[name])
                  IN  IF ~r.ok THEN [st |-> r.err, compat2binding |-> loaded]
                      ELSE AloneFrom(dir, i + 1,
                               [c \in DOMAIN loaded \cup {dir[name].compat} |->
                                   IF c = dir[name].compat THEN r.d
                                   ELSE loaded[c]])

\* C10: however the steps of the builds are interleaved, a build that has
\* ended has ended the way it ends when it runs alone, with the same
\* bindings: every !include was resolved in the build's own directory.
C10_BuildIsolation ==
    \A b \in DOMAIN bpc :
        bpc[b].st \notin {"new", "loading"} =>
            /\ bpc[b].st = AloneFrom(bdirs[b], 1, <<>>).st
            /\ compat2binding[b] = AloneFrom(bdirs[b], 1, <<>>).compat2binding

(***************************************************************************)
(*                      dtlib.py: the DT constructor                       *)
(*                                                                         *)
(* 'tree' maps the path of every node reachable from the root (a sequence  *)
(* of node names, <<>> for the root) to the node:                          *)
(*   labels        Node.labels                                             *)
(*   props         Node.props, the properties in insertion order           *)
(*   nodes         Node.nodes, the names of the children in insertion      *)
(*                 order                                                   *)
(*   omit, referenced   Node._omit_if_no_ref, Node._is_referenced          *)
(* A property has name, value (a sequence of bytes), markers (a sequence   *)
(* of [pos, ref, type]), labels and offset_labels (a sequence of           *)
(* <<label, offset>>).  A reference is a label (&l) or a path (&{/a/b}).   *)
(* The parser is modelled statement by statement: one action is one turn   *)
(* of the loop of _parse_dt() or of _parse_node().                         *)
(***************************************************************************)
_PATH == "PATH"
_PHANDLE == "PHANDLE"
_LABEL == "LABEL"

LabelRef(l) == [k |-> "label", v |-> <<l>>]
PathRef(path) == [k |-> "path", v |-> path]
NoRef == [k |-> "none", v |-> <<>>]

\* _append_no_dup()
_append_no_dup(lst, elm) == IF elm \in Range(lst) THEN lst ELSE Append(lst, elm)

RECURSIVE AppendAllNoDup(_, _)
AppendAllNoDup(lst, elms) ==
    IF elms = <<>> THEN lst
    ELSE AppendAllNoDup(_append_no_dup(lst, Head(elms)), Tail(elms))

\* Node(name, parent, dt)
Node ==
    [labels |-> <<>>, props |-> <<>>, nodes |-> <<>>, omit |-> FALSE,
     referenced |-> FALSE]

\* Property(node, name)
Property(name) ==
    [name |-> name, value |-> <<>>, markers |-> <<>>, labels |-> <<>>,
     offset_labels |-> <<>>]

\* The order of the names, as sorted() orders the strings
NameRank(name) ==
    CASE name = "a" -> 1 [] name = "aliases" -> 2 [] name = "b" -> 3
      [] name = "phandle" -> 4 [] name = "x" -> 5 [] OTHER -> 6

\* path1 comes before path2 in node_iter(): a node before its children,
\* the children sorted by name
RECURSIVE PathBefore(_, _)
PathBefore(path1, path2) ==
    IF path1 = <<>> THEN path2 # <<>>
    ELSE IF path2 = <<>> THEN FALSE
    ELSE IF Head(path1) = Head(path2) THEN PathBefore(Tail(path1), Tail(path2))
    ELSE NameRank(Head(path1)) < NameRank(Head(path2))

\* The paths of 'paths' in the order of node_iter()
RECURSIVE InIterOrder(_)
InIterOrder(paths) ==
    IF paths = {} THEN <<>>
    ELSE LET p == CHOOSE p \in paths : \A q \in paths \ {p} : PathBefore(p, q)
         IN  <<p>> \o InIterOrder(paths \ {p})

node_iter(t) == InIterOrder(DOMAIN t)

IsPrefix(p, q) == Len(p) <= Len(q) /\ SubSeq(q, 1, Len(p)) = p

Parent(path) == SubSeq(path, 1, Len(path) - 1)

\* The index of the property 'name' in props, 0 if there is none
PropIndex(props, name) ==
    IF \E i \in DOMAIN props : props[i].name = name
    THEN CHOOSE i \in DOMAIN props : props[i].name = name
    ELSE 0

HasProp(node, name) == PropIndex(node.props, name) # 0

GetProp(node, name) == node.props[PropIndex(node.props, name)]

Remove(seq, i) == SubSeq(seq, 1, i - 1) \o SubSeq(seq, i + 1, Len(seq))

RemoveElem(seq, e) ==
    IF \E i \in DOMAIN seq : seq[i] = e
    THEN Remove(seq, CHOOSE i \in DOMAIN seq : seq[i] = e)
    ELSE seq

\* The bytes of a node name, one byte standing for the name
CharCode(name) ==
    CASE name = "a" -> 97 [] name = "b" -> 98 [] name = "aliases" -> 65
      [] OTHER -> 63

\* Node.path encoded, with the terminating NUL
RECURSIVE PathChars(_)
PathChars(path) ==
    IF path = <<>> THEN <<>>
    ELSE <<47, CharCode(Head(path))>> \o PathChars(Tail(path))

PathBytes(path) == (IF path = <<>> THEN <<47>> ELSE PathChars(path)) \o <<0>>

\* num.to_bytes(4, "big"), and with signed=True for a negative number
to_bytes4(num) ==
    [i \in 1..4 |->
        LET d == CASE i = 1 -> 16777216 [] i = 2 -> 65536 [] i = 3 -> 256
                   [] OTHER -> 1
        IN  IF num >= 0 THEN (num \div d) % 256
            ELSE 255 - ((((0 - num) - 1) \div d) % 256)]

\* A DTError: the step that raised it, what it says and the node, the label
\* and the locations it names.  NoError is no exception.
DTError(stage, kind, node) ==
    [type |-> "DTError", stage |-> stage, kind |-> kind, node |-> node,
     label |-> "", locations |-> <<>>]

NoError ==
    [type |-> "none", stage |-> "", kind |-> "", node |-> <<>>, label |-> "",
     locations |-> <<>>]

\* An exception that is not a DTError
AttributeError(stage) ==
    [type |-> "AttributeError", stage |-> stage, kind |-> "", node |-> <<>>,
     label |-> "", locations |-> <<>>]

OkNode(path) == [ok |-> TRUE, path |-> path]

\* get_node() on an absolute path
get_node(t, path) ==
    IF path \in DOMAIN t THEN OkNode(path)
    ELSE [ok |-> FALSE, kind |-> "does not exist"]

\* _resolve_ref(): a path is looked up, a label is searched for in
\* node_iter() order
_resolve_ref(t, ref) ==
    IF ref.k = "path" THEN get_node(t, ref.v)
    ELSE LET with == {p \in DOMAIN t : ref.v[1] \in Range(t[p].labels)}
         IN  IF with = {} THEN [ok |-> FALSE, kind |-> "undefined node label"]
             ELSE OkNode(InIterOrder(with)[1])

\* A bug: the labels of the deleted node stay on its parent
DelNodeKeepLabels(t, path) ==
    [p \in {q \in DOMAIN t : ~IsPrefix(path, q)} |->
        IF p = Parent(path)
        THEN [t[p] EXCEPT !.nodes = RemoveElem(@, path[Len(path)]),
                          !.labels = AppendAllNoDup(@, t[path].labels)]
        ELSE t[p]]

\* The tree without the node 'path' and its subtree: _del_node() pops the
\* node from the children of its parent
_del_node(t, path) ==
    [p \in {q \in DOMAIN t : ~IsPrefix(path, q)} |->
        IF p = Parent(path)
        THEN [t[p] EXCEPT !.nodes = RemoveElem(@, path[Len(path)])]
        ELSE t[p]]

(***************************************************************************)
(* Statements.  A value is a sequence of items: a byte of '[ ]', a cell of *)
(* '< >', a phandle reference of '< >', a path reference, or a label.      *)
(* A number of /memreserve/ is written as a hexadecimal literal, as the    *)
(* parenthesized negation of one, or (by str()) with a bare minus sign.    *)
(***************************************************************************)
Stmt(kind, labels, name, ref, value) ==
    [kind |-> kind, labels |-> labels, name |-> name, ref |-> ref,
     value |-> value, omit |-> FALSE]

Byte(n) == [t |-> "byte", n |-> n, ref |-> NoRef]
Cell(n) == [t |-> "cell", n |-> n, ref |-> NoRef]
PhandleRefItem(ref) == [t |-> "phref", n |-> 0, ref |-> ref]
PathRefItem(ref) == [t |-> "pathref", n |-> 0, ref |-> ref]
LabelItem(l) == [t |-> "label", n |-> 0, ref |-> LabelRef(l)]

Literal(form, hex) == [t |-> form, n |-> 0, ref |-> NoRef, hex |-> hex]

\* The value of a sequence of hexadecimal digits
RECURSIVE HexValue(_)
HexValue(hex) ==
    IF hex = <<>> THEN 0
    ELSE HexValue(SubSeq(hex, 1, Len(hex) - 1)) * 16 + hex[Len(hex)]

\* _eval_prim() on a literal, on '(-literal)' and on '-literal'
_eval_prim(prim) ==
    CASE prim.t = "num" -> [ok |-> TRUE, val |-> HexValue(prim.hex)]
      [] prim.t = "paren-neg" -> [ok |-> TRUE, val |-> 0 - HexValue(prim.hex)]
      [] OTHER -> [ok |-> FALSE, val |-> 0]

\* Property._add_marker()
_add_marker(prop, ref, marker_type) ==
    [prop EXCEPT
        !.markers = Append(@, [pos |-> Len(prop.value), ref |-> ref,
                               type |-> marker_type]),
        !.value = IF marker_type = _PHANDLE THEN @ \o <<0, 0, 0, 0>> ELSE @]

\* _parse_assignment() after it has emptied the property: the items of the
\* value are appended one by one
RECURSIVE ParseItems(_, _)
ParseItems(prop, items) ==
    IF items = <<>> THEN prop
    ELSE LET it == Head(items)
             p1 == CASE it.t = "byte" -> [prop EXCEPT !.value = @ \o <<it.n>>]
                     [] it.t = "cell" ->
                            [prop EXCEPT !.value = @ \o to_bytes4(it.n)]
                     [] it.t = "phref" -> _add_marker(prop, it.ref, _PHANDLE)
                     [] it.t = "pathref" -> _add_marker(prop, it.ref, _PATH)
                     [] OTHER -> _add_marker(prop, it.ref, _LABEL)
         IN  ParseItems(p1, Tail(items))

\* A bug: the references of the old value are kept
ParseAssignmentKeepsMarkers(prop, items) ==
    ParseItems([prop EXCEPT !.value = <<>>], items)

_parse_assignment(prop, items) ==
    ParseItems([prop EXCEPT !.value = <<>>, !.markers = <<>>], items)

\* _node_prop(): the properties of the node with 'name' created at the end
\* if it is missing
_node_prop(props, name) ==
    IF PropIndex(props, name) # 0 THEN props ELSE Append(props, Property(name))

\* The state of the parser, and the parser's variables set from it
Parser ==
    [pc |-> pc, err |-> err, tree |-> tree, stack |-> stack,
     toplabel |-> toplabel, memreserves |-> memreserves]

Becomes(r) ==
    /\ pc' = r.pc /\ err' = r.err /\ tree' = r.tree /\ stack' = r.stack
    /\ toplabel' = r.toplabel /\ memreserves' = r.memreserves

\* _parse_error()
_parse_error(kind) ==
    [Parser EXCEPT !.pc = "DTError", !.err = DTError("parse", kind, <<>>)]

\* An exception that is not a DTError leaves the constructor
Crash == [Parser EXCEPT !.pc = "crash", !.err = AttributeError("parse")]

\* No top-level statement other than /memreserve/ has been read
InHead == last.kind \in {"start", "memreserve"}

\* The node that the running _parse_node() works on
Cur == stack[Len(stack)]

\* _parse_dt(): '[labels] /memreserve/ <address> <size>;'
memreserve(st) ==
    LET address == _eval_prim(st.value[1])
        size == _eval_prim(st.value[2])
    IN  IF ~address.ok \/ ~size.ok
        THEN _parse_error("expected number or parenthesized expression")
        ELSE [Parser EXCEPT !.memreserves =
                 Append(@, [labels |-> AppendAllNoDup(<<>>, st.labels),
                            address |-> address.val, size |-> size.val])]

\* _parse_dt(): '/ {', and a label in front of it
root(st) ==
    IF st.labels # <<>>
    THEN IF InHead
         THEN _parse_error("expected /memreserve/ after labels")
         ELSE _parse_error("expected label reference")
    ELSE [Parser EXCEPT
             !.tree = IF <<>> \in DOMAIN tree THEN tree ELSE (<<>> :> Node),
             !.stack = <<<<>>>>,
             !.toplabel = <<>>]

\* _parse_dt(): '[label:] &ref {'
ref_open(st) ==
    IF st.labels # <<>> /\ InHead
    THEN _parse_error("expected /memreserve/ after labels")
    ELSE IF <<>> \notin DOMAIN tree THEN Crash
    ELSE LET node == _resolve_ref(tree, st.ref)
         IN  IF ~node.ok THEN _parse_error(node.kind)
             ELSE [Parser EXCEPT !.stack = <<node.path>>,
                                 !.toplabel = st.labels]

\* _parse_dt(): '/delete-node/ &ref;'
delete_node_ref(st) ==
    IF <<>> \notin DOMAIN tree THEN Crash
    ELSE LET node == _resolve_ref(tree, st.ref)
         IN  IF ~node.ok THEN _parse_error(node.kind)
             ELSE IF node.path = <<>> THEN Crash
             ELSE [Parser EXCEPT !.tree = _del_node(tree, node.path)]

\* _parse_dt(): '/omit-if-no-ref/ &ref;'
omit_if_no_ref(st) ==
    IF <<>> \notin DOMAIN tree THEN Crash
    ELSE LET node == _resolve_ref(tree, st.ref)
         IN  IF ~node.ok THEN _parse_error(node.kind)
             ELSE [Parser EXCEPT !.tree[node.path].omit = TRUE]

\* _parse_dt(): the end of the file
eof(st) ==
    IF <<>> \notin DOMAIN tree THEN _parse_error("no root node defined")
    ELSE [Parser EXCEPT !.pc = "register_phandles"]

\* _parse_node(): '[labels] [/omit-if-no-ref/] name {'
child_open(st) ==
    LET path == Append(Cur, st.name)
        child == IF path \in DOMAIN tree THEN tree[path] ELSE Node
        child1 == [child EXCEPT
                      !.labels = AppendAllNoDup(@, st.labels),
                      !.omit = IF st.omit THEN TRUE ELSE @]
    IN  [Parser EXCEPT
            !.tree = [p \in DOMAIN tree \cup {path} |->
                         IF p = path THEN child1
                         ELSE IF p = Cur
                         THEN [tree[p] EXCEPT
                                  !.nodes = _append_no_dup(@, st.name)]
                         ELSE tree[p]],
            !.stack = Append(stack, path)]

\* _parse_node(): '[labels] name = value;'
assign(st) ==
    LET props == _node_prop(tree[Cur].props, st.name)
        i == PropIndex(props, st.name)
        prop == _parse_assignment(props[i], st.value)
    IN  [Parser EXCEPT
            !.tree[Cur].props =
                [props EXCEPT ![i] =
                    [prop EXCEPT !.labels = AppendAllNoDup(@, st.labels)]]]

\* _parse_node(): '[labels] name;'
empty_prop(st) ==
    LET props == _node_prop(tree[Cur].props, st.name)
        i == PropIndex(props, st.name)
    IN  [Parser EXCEPT
            !.tree[Cur].props =
                [props EXCEPT ![i].labels = AppendAllNoDup(@, st.labels)]]

\* _parse_node(): '/delete-node/ name;'
delete_node(st) ==
    IF Append(Cur, st.name) \in DOMAIN tree
    THEN [Parser EXCEPT !.tree = _del_node(tree, Append(Cur, st.name))]
    ELSE Parser

\* _parse_node(): '/delete-property/ name;'
delete_property(st) ==
    LET i == PropIndex(tree[Cur].props, st.name)
    IN  IF i = 0 THEN Parser
        ELSE [Parser EXCEPT !.tree[Cur].props = Remove(@, i)]

\* _parse_node(): '};', after which _parse_dt() adds the label in front of
\* '&ref {' to the node
close(st) ==
    IF Len(stack) = 1 /\ toplabel # <<>>
    THEN [Parser EXCEPT
             !.tree[Cur].labels = _append_no_dup(@, toplabel[1]),
             !.stack = <<>>, !.toplabel = <<>>]
    ELSE [Parser EXCEPT !.stack = SubSeq(stack, 1, Len(stack) - 1)]

(***************************************************************************)
(* Post-processing.  Each step runs over the whole tree in node_iter()     *)
(* order and is one action.                                                *)
(***************************************************************************)
\* The first marker of type _PHANDLE of a property, 0 if there is none
FirstPhandleMarker(prop) ==
    IF \E i \in DOMAIN prop.markers : prop.markers[i].type = _PHANDLE
    THEN CHOOSE i \in DOMAIN prop.markers :
             /\ prop.markers[i].type = _PHANDLE
             /\ \A j \in 1..(i - 1) : prop.markers[j].type # _PHANDLE
    ELSE 0

\* _register_phandles() from the i-th node of 'order' on
RECURSIVE RegisterFrom(_, _, _, _)
RegisterFrom(t, order, i, p2n) ==
    IF i > Len(order) THEN [ok |-> TRUE, phandle2node |-> p2n]
    ELSE
    LET path == order[i]
        node == t[path]
    IN
    IF ~HasProp(node, "phandle") THEN RegisterFrom(t, order, i + 1, p2n)
    ELSE
    LET phandle == GetProp(node, "phandle")
        m == FirstPhandleMarker(phandle)
        target == _resolve_ref(t, phandle.markers[m].ref)
    IN
    IF Len(phandle.value) # 4
    THEN [ok |-> FALSE,
          err |-> DTError("register_phandles", "bad phandle length", path)]
    ELSE IF m # 0 /\ ~target.ok
    THEN [ok |-> FALSE, err |-> DTError("register_phandles", target.kind, <<>>)]
    ELSE IF m # 0 /\ target.path # path
    THEN [ok |-> FALSE,
          err |-> DTError("register_phandles", "refers to another node", path)]
    ELSE IF m # 0 THEN RegisterFrom(t, order, i + 1, p2n)
    ELSE IF phandle.value \in {<<0, 0, 0, 0>>, <<255, 255, 255, 255>>}
    THEN [ok |-> FALSE, err |-> DTError("register_phandles", "bad value", path)]
    ELSE IF to_num(phandle.value) \in DOMAIN p2n
    THEN [ok |-> FALSE,
          err |-> DTError("register_phandles", "duplicated phandle", path)]
    ELSE RegisterFrom(t, order, i + 1,
                      [v \in DOMAIN p2n \cup {to_num(phandle.value)} |->
                          IF v = to_num(phandle.value) THEN path ELSE p2n[v]])

_register_phandles(t) == RegisterFrom(t, node_iter(t), 1, <<>>)

\* A bug: the registered phandles are not skipped
FreePhandleFromStart(p2n, phandle_i) == phandle_i

\* The smallest phandle from phandle_i on that is not in phandle2node
RECURSIVE FreePhandle(_, _)
FreePhandle(p2n, phandle_i) ==
    IF phandle_i \in DOMAIN p2n THEN FreePhandle(p2n, phandle_i + 1)
    ELSE phandle_i

\* _node_phandle(): the tree and phandle2node after it, and what it returns
_node_phandle(t, p2n, path) ==
    LET props == IF HasProp(t[path], "phandle") THEN t[path].props
                 ELSE Append(t[path].props,
                             [Property("phandle") EXCEPT
                                 !.value = <<0, 0, 0, 0>>])
        i == PropIndex(props, "phandle")
        phandle_i == FreePhandle(p2n, 1)
    IN  IF props[i].value = <<0, 0, 0, 0>>
        THEN [tree |-> [t EXCEPT ![path].props =
                           [props EXCEPT ![i].value = to_bytes4(phandle_i)]],
              phandle2node |-> [v \in DOMAIN p2n \cup {phandle_i} |->
                                   IF v = phandle_i THEN path ELSE p2n[v]],
              value |-> to_bytes4(phandle_i)]
        ELSE [tree |-> t, phandle2node |-> p2n, value |-> props[i].value]

\* The loop over the markers of one property in _fixup_props(), from the
\* k-th marker on.  'f' holds the tree, phandle2node, 'res' and 'prev_pos'.
RECURSIVE FixupMarkers(_, _, _, _)
FixupMarkers(f, path, name, k) ==
    LET prop == GetProp(f.tree[path], name)
        i == PropIndex(f.tree[path].props, name)
    IN
    IF k > Len(prop.markers)
    THEN [f EXCEPT !.tree[path].props[i].value =
             f.res \o SubSeq(prop.value, f.prev_pos + 1, Len(prop.value))]
    ELSE
    LET marker == prop.markers[k]
        res == f.res \o SubSeq(prop.value, f.prev_pos + 1, marker.pos)
        ref_node == _resolve_ref(f.tree, marker.ref)
    IN
    IF marker.type = _LABEL
    THEN FixupMarkers(
             [f EXCEPT !.tree[path].props[i].offset_labels =
                           _append_no_dup(@, <<marker.ref.v[1], Len(res)>>),
                       !.res = res, !.prev_pos = marker.pos],
             path, name, k + 1)
    ELSE IF ~ref_node.ok
    THEN [f EXCEPT !.ok = FALSE,
                   !.err = DTError("fixup_props", ref_node.kind, path)]
    ELSE
    LET t1 == [f.tree EXCEPT ![ref_node.path].referenced = TRUE]
        ph == _node_phandle(t1, f.phandle2node, ref_node.path)
    IN  IF marker.type = _PATH
        THEN FixupMarkers(
                 [f EXCEPT !.tree = t1,
                           !.res = res \o PathBytes(ref_node.path),
                           !.prev_pos = marker.pos],
                 path, name, k + 1)
        ELSE FixupMarkers(
                 [f EXCEPT !.tree = ph.tree,
                           !.phandle2node = ph.phandle2node,
                           !.res = res \o ph.value,
                           !.prev_pos = marker.pos + 4],
                 path, name, k + 1)

\* The loop over the properties of one node: the properties the node has
\* when its turn comes, 'names', from the j-th on
RECURSIVE FixupNodeProps(_, _, _, _)
FixupNodeProps(f, path, names, j) ==
    IF j > Len(names) \/ ~f.ok THEN f
    ELSE FixupNodeProps(
             FixupMarkers([f EXCEPT !.res = <<>>, !.prev_pos = 0],
                          path, names[j], 1),
             path, names, j + 1)

\* _fixup_props() from the i-th node of 'order' on
RECURSIVE FixupFrom(_, _, _)
FixupFrom(f, order, i) ==
    IF i > Len(order) \/ ~f.ok THEN f
    ELSE FixupFrom(
             FixupNodeProps(f, order[i],
                            [j \in DOMAIN f.tree[order[i]].props |->
                                f.tree[order[i]].props[j].name], 1),
             order, i + 1)

_fixup_props(t, p2n) ==
    FixupFrom([ok |-> TRUE, err |-> NoError, tree |-> t, phandle2node |-> p2n,
               res |-> <<>>, prev_pos |-> 0],
              node_iter(t), 1)

(***************************************************************************)
(* Paths as get_node() takes them.  A path is a string, modelled as the     *)
(* sequence of its pieces: "/" or a name.  A property value is decoded one  *)
(* byte to a piece, the way PathBytes() encodes a path.                     *)
(***************************************************************************)
\* The node object at 'path', in the tree or taken from it
Obj(t, gone, path) == IF path \in DOMAIN t THEN t[path] ELSE gone[path]

Found(path) == [ok |-> TRUE, path |-> path, kind |-> "", component_i |-> 0]
NotFound(kind, component_i) ==
    [ok |-> FALSE, path |-> <<>>, kind |-> kind, component_i |-> component_i]

\* The index of the first "/" of a string, 0 if it has none
Slash(str) ==
    IF \E i \in DOMAIN str : str[i] = "/"
    THEN CHOOSE i \in DOMAIN str :
            str[i] = "/" /\ \A j \in 1..(i - 1) : str[j] # "/"
    ELSE 0

\* str.partition("/"): what is before the first "/", and what is after it
partition(str) ==
    IF Slash(str) = 0 THEN [alias |-> str, rest |-> <<>>]
    ELSE [alias |-> SubSeq(str, 1, Slash(str) - 1),
          rest |-> SubSeq(str, Slash(str) + 1, Len(str))]

\* str.split("/")
RECURSIVE split(_)
split(str) ==
    IF Slash(str) = 0 THEN <<str>>
    ELSE <<partition(str).alias>> \o split(partition(str).rest)

\* The loop of get_node() from its k-th component on
RECURSIVE Follow(_, _, _, _, _, _)
Follow(t, gone, cur, components, k, component_i) ==
    IF k > Len(components) THEN Found(cur)
    ELSE IF components[k] = <<>>
    THEN Follow(t, gone, cur, components, k + 1, component_i)
    ELSE IF /\ Len(components[k]) = 1
            /\ components[k][1] \in Range(Obj(t, gone, cur).nodes)
    THEN Follow(t, gone, Append(cur, components[k][1]), components, k + 1,
                component_i + 1)
    ELSE NotFound("does not exist", component_i + 1)

\* A bug: the components after an alias are counted from 1
LookupAliasNotCounted(t, gone, a2n, is_parsing, path) ==
    IF path # <<>> /\ path[1] = "/"
    THEN Follow(t, gone, <<>>, split(path), 1, 0)
    ELSE LET alias == partition(path).alias
         IN  IF Len(alias) # 1 \/ alias[1] \notin DOMAIN a2n
             THEN NotFound(IF is_parsing THEN "node path does not start with '/'"
                           ELSE "no alias found", 0)
             ELSE Follow(t, gone, a2n[alias[1]], split(partition(path).rest),
                         1, 0)

\* DT.get_node(path), with DT.alias2node and DT._is_parsing
Lookup(t, gone, a2n, is_parsing, path) ==
    IF path # <<>> /\ path[1] = "/"
    THEN Follow(t, gone, <<>>, split(path), 1, 0)
    ELSE LET alias == partition(path).alias
         IN  IF Len(alias) # 1 \/ alias[1] \notin DOMAIN a2n
             THEN NotFound(IF is_parsing THEN "node path does not start with '/'"
                           ELSE "no alias found", 0)
             ELSE Follow(t, gone, a2n[alias[1]], split(partition(path).rest),
                         1, 1)

\* The piece of a path that a byte of a value stands for
Decode(byte) ==
    CASE byte = 47 -> "/" [] byte = 97 -> "a" [] byte = 98 -> "b"
      [] byte = 65 -> "aliases" [] byte = 49 -> "a1" [] OTHER -> "?"

\* to_string(data): the value is valid UTF-8, ends with a NUL and has no
\* other NUL
to_string(data) ==
    IF \E i \in DOMAIN data : data[i] > 127
    THEN [ok |-> FALSE, kind |-> "is not valid UTF-8", str |-> <<>>]
    ELSE IF data = <<>> \/ data[Len(data)] # 0
    THEN [ok |-> FALSE, kind |-> "is not null-terminated", str |-> <<>>]
    ELSE IF \E i \in 1..(Len(data) - 1) : data[i] = 0
    THEN [ok |-> FALSE, kind |-> "contains more than one string", str |-> <<>>]
    ELSE [ok |-> TRUE, kind |-> "",
          str |-> [i \in 1..(Len(data) - 1) |-> Decode(data[i])]]

\* alias_re.match(name): the names with characters of [0-9a-z-] only
alias_re(name) == name \in {"a1", "a2", "x", "phandle"}

\* _register_aliases(): the name of every property of /aliases matches
\* alias_re, its value is a string, and get_node() finds the path while
\* DT.alias2node is still empty
RECURSIVE AliasesFrom(_, _, _, _)
AliasesFrom(t, props, i, a2n) ==
    IF i > Len(props) THEN [ok |-> TRUE, alias2node |-> a2n]
    ELSE IF ~alias_re(props[i].name)
    THEN [ok |-> FALSE,
          err |-> DTError("register_aliases", "bad alias name", <<"aliases">>)]
    ELSE IF ~to_string(props[i].value).ok
    THEN [ok |-> FALSE,
          err |-> DTError("register_aliases", to_string(props[i].value).kind,
                          <<"aliases">>)]
    ELSE LET node == Lookup(t, <<>>, <<>>, TRUE, to_string(props[i].value).str)
         IN  IF node.ok
             THEN AliasesFrom(t, props, i + 1,
                      [n \in DOMAIN a2n \cup {props[i].name} |->
                          IF n = props[i].name THEN node.path ELSE a2n[n]])
             ELSE [ok |-> FALSE,
                   err |-> DTError("register_aliases", "bad path",
                                   <<"aliases">>)]

_register_aliases(t) ==
    IF <<"aliases">> \in DOMAIN t
    THEN AliasesFrom(t, t[<<"aliases">>].props, 1, <<>>)
    ELSE [ok |-> TRUE, alias2node |-> <<>>]

\* The node objects that _remove_unreferenced() has taken from the tree,
\* from the i-th node of 'order' on: _del_node() pops a node from the
\* children of its parent, in the tree or not
RECURSIVE PrunedFrom(_, _, _, _)
PrunedFrom(before, gone, order, i) ==
    IF i > Len(order) THEN gone
    ELSE IF before[order[i]].omit /\ ~before[order[i]].referenced
            /\ order[i] # <<>>
    THEN PrunedFrom(before,
             [p \in DOMAIN gone
                    \cup {q \in DOMAIN before : IsPrefix(order[i], q)} |->
                 IF p \in DOMAIN gone
                 THEN IF p = Parent(order[i])
                      THEN [gone[p] EXCEPT
                              !.nodes = RemoveElem(@, order[i][Len(order[i])])]
                      ELSE gone[p]
                 ELSE before[p]],
             order, i + 1)
    ELSE PrunedFrom(before, gone, order, i + 1)

\* _remove_unreferenced() from the i-th node of 'order' on; deleting the
\* root fails on 'node.parent.nodes' with an AttributeError
RECURSIVE RemoveFrom(_, _, _, _)
RemoveFrom(before, t, order, i) ==
    IF i > Len(order) THEN [ok |-> TRUE, tree |-> t]
    ELSE IF before[order[i]].omit /\ ~before[order[i]].referenced
    THEN IF order[i] = <<>> THEN [ok |-> FALSE, tree |-> t]
         ELSE RemoveFrom(before, _del_node(t, order[i]), order, i + 1)
    ELSE RemoveFrom(before, t, order, i + 1)

_remove_unreferenced(t) == RemoveFrom(t, t, node_iter(t), 1)

\* What a label can be on: a node, a property, a position in a value
NodeThing(path) == [on |-> "node", path |-> path, name |-> "", offset |-> 0]
PropThing(path, name) ==
    [on |-> "prop", path |-> path, name |-> name, offset |-> 0]
OffsetThing(path, name, offset) ==
    [on |-> "offset", path |-> path, name |-> name, offset |-> offset]

\* The <<label, thing>> pairs in the order in which _register_labels() meets
\* them: per property its labels, then the labels in its value
RECURSIVE PropLabels(_, _, _)
PropLabels(path, props, j) ==
    IF j > Len(props) THEN <<>>
    ELSE [k \in DOMAIN props[j].labels |->
             <<props[j].labels[k], PropThing(path, props[j].name)>>]
         \o [k \in DOMAIN props[j].offset_labels |->
                <<props[j].offset_labels[k][1],
                  OffsetThing(path, props[j].name,
                              props[j].offset_labels[k][2])>>]
         \o PropLabels(path, props, j + 1)

RECURSIVE LabelsFrom(_, _, _)
LabelsFrom(t, order, i) ==
    IF i > Len(order) THEN <<>>
    ELSE [k \in DOMAIN t[order[i]].labels |->
             <<t[order[i]].labels[k], NodeThing(order[i])>>]
         \o PropLabels(order[i], t[order[i]].props, 1)
         \o LabelsFrom(t, order, i + 1)

\* How the string that the error message has for a thing sorts: "in the
\* value of property ..." before "on /..." before "on property ...", then
\* by the property name, then by the path
KindRank(thing) ==
    CASE thing.on = "offset" -> 0 [] thing.on = "node" -> 1 [] OTHER -> 2

StringBefore(thing1, thing2) ==
    IF KindRank(thing1) # KindRank(thing2)
    THEN KindRank(thing1) < KindRank(thing2)
    ELSE IF thing1.name # thing2.name
    THEN NameRank(thing1.name) < NameRank(thing2.name)
    ELSE PathBefore(thing1.path, thing2.path)

\* The string for a thing: it does not tell the offset
Location(thing) == [thing EXCEPT !.offset = 0]

\* A bug: the strings are left in the order of the set
RECURSIVE UnsortedLocations(_)
UnsortedLocations(things) ==
    IF things = {} THEN <<>>
    ELSE LET th == CHOOSE th \in things :
                       \A other \in things : ~StringBefore(th, other)
         IN  <<Location(th)>> \o UnsortedLocations(things \ {th})

\* strings.sort()
RECURSIVE SortedLocations(_)
SortedLocations(things) ==
    IF things = {} THEN <<>>
    ELSE LET th == CHOOSE th \in things :
                       \A other \in things : ~StringBefore(other, th)
         IN  <<Location(th)>> \o SortedLocations(things \ {th})

\* dict(pairs): a key keeps its first place and gets its last value
RECURSIVE DictOf(_)
DictOf(pairs) ==
    IF pairs = <<>> THEN <<>>
    ELSE LET front == DictOf(SubSeq(pairs, 1, Len(pairs) - 1))
             pair == pairs[Len(pairs)]
         IN  IF \E k \in DOMAIN front : front[k][1] = pair[1]
             THEN [k \in DOMAIN front |->
                      IF front[k][1] = pair[1] THEN pair ELSE front[k]]
             ELSE Append(front, pair)

\* The last thing of kind 'on' registered under 'label'
LastOf(pairs, label, on) ==
    LET is == {k \in DOMAIN pairs : pairs[k][1] = label /\ pairs[k][2].on = on}
    IN  pairs[CHOOSE k \in is : \A k2 \in is : k2 <= k][2]

LabelsOn(pairs, on) == {pairs[k][1] : k \in {k \in DOMAIN pairs : pairs[k][2].on = on}}

\* _register_labels()
_register_labels(t) ==
    LET pairs == LabelsFrom(t, node_iter(t), 1)
        things(label) == {pairs[k][2] : k \in {k \in DOMAIN pairs : pairs[k][1] = label}}
        dups == {k \in DOMAIN pairs : Cardinality(things(pairs[k][1])) > 1}
        label == pairs[CHOOSE k \in dups : \A k2 \in dups : k <= k2][1]
    IN  IF dups # {}
        THEN [ok |-> FALSE,
              err |-> [DTError("register_labels", "Label appears", <<>>)
                          EXCEPT !.label = label,
                                 !.locations = SortedLocations(things(label))]]
        ELSE [ok |-> TRUE,
              tree |-> [path \in DOMAIN t |->
                           [t[path] EXCEPT !.props =
                               [j \in DOMAIN @ |->
                                   [@[j] EXCEPT !.offset_labels = DictOf(@)]]]],
              label2node |-> [l \in LabelsOn(pairs, "node") |->
                                 LastOf(pairs, l, "node").path],
              label2prop |-> [l \in LabelsOn(pairs, "prop") |->
                                 LastOf(pairs, l, "prop")],
              label2prop_offset |-> [l \in LabelsOn(pairs, "offset") |->
                                        LastOf(pairs, l, "offset")]]

(***************************************************************************)
(* The sources the parser is run on.  'budget' bounds how many statements  *)
(* of each kind a source has; the nodes are /, /a, /a/b and /aliases, the  *)
(* properties 'x' and 'phandle', the labels l1 and l2.                     *)
(***************************************************************************)
MaxOpens == 3
MaxProps == 2
MaxDirs == 1

Start == Stmt("start", <<>>, "", NoRef, <<>>)

LabelChoices(name) == {<<>>, <<"l1">>}

RefChoices == {LabelRef("l1"), PathRef(<<"a">>)}

\* 0x10, 0x20 and (-0x1)
MemreserveChoices ==
    {Stmt("memreserve", <<"l1">>, "", NoRef,
          <<Literal("num", <<1, 0>>), Literal("num", <<2, 0>>)>>),
     Stmt("memreserve", <<>>, "", NoRef,
          <<Literal("paren-neg", <<1>>), Literal("num", <<2, 0>>)>>)}

XValues ==
    {<<Byte(1)>>,
     <<LabelItem("l2")>>,
     <<PathRefItem(LabelRef("l1"))>>,
     <<PathRefItem(PathRef(<<"a">>))>>,
     <<PhandleRefItem(LabelRef("l1"))>>}

PhandleValues ==
    {<<Cell(1)>>, <<Cell(0)>>, <<Cell(0 - 1)>>,
     <<PhandleRefItem(LabelRef("l1"))>>,
     <<PhandleRefItem(LabelRef("l1")), PhandleRefItem(LabelRef("l2"))>>,
     <<Cell(1), PathRefItem(LabelRef("l1"))>>}

ChildNames(path) ==
    IF path = <<>> THEN {"a", "aliases"}
    ELSE IF path = <<"a">> THEN {"b"} ELSE {}

\* A source has its /memreserve/ lines, if any, instead of a directive
TopMenu ==
    {st \in MemreserveChoices : InHead /\ budget.dirs > 0}
    \cup {Stmt("root", <<>>, "", NoRef, <<>>) : o \in {o \in {1} : budget.opens > 0}}
    \cup {Stmt("ref", <<>>, "", r, <<>>) :
            r \in {q \in RefChoices :
                      budget.opens > 0 /\ <<>> \in DOMAIN tree}}
    \cup {Stmt("ref", <<"l2">>, "", PathRef(<<"a">>), <<>>) :
            o \in {o \in {1} : budget.opens > 0 /\ <<>> \in DOMAIN tree}}
    \cup {Stmt(k, <<>>, "", r, <<>>) :
            k \in {k \in {"delete-node-ref", "omit-if-no-ref"} :
                      budget.dirs > 0 /\ <<>> \in DOMAIN tree},
            r \in RefChoices \cup {PathRef(<<>>)}}
    \cup {Stmt("eof", <<>>, "", NoRef, <<>>)}

\* The properties of a node body come before its child nodes, as in the
\* sources dtc accepts
PropsAllowed ==
    /\ budget.props > 0
    /\ last.kind \in {"root", "ref", "child", "assign", "empty",
                      "delete-property"}

NodeMenu ==
    UNION {{Stmt("child", ls, n, NoRef, <<>>) : ls \in LabelChoices(n)} :
              n \in {m \in ChildNames(Cur) : budget.opens > 0}}
    \cup {Stmt("assign", <<>>, "x", NoRef, v) :
            v \in {w \in XValues : PropsAllowed}}
    \cup {Stmt("assign", <<"l1">>, "x", NoRef, <<Byte(1)>>) :
            o \in {o \in {1} : PropsAllowed}}
    \cup {Stmt("assign", <<>>, "phandle", NoRef, v) :
            v \in {w \in PhandleValues : PropsAllowed}}
    \cup {Stmt("empty", <<>>, "x", NoRef, <<>>) :
            o \in {o \in {1} : PropsAllowed}}
    \cup {Stmt("delete-property", <<>>, "x", NoRef, <<>>) :
            o \in {o \in {1} : PropsAllowed}}
    \cup {Stmt("delete-node", <<>>, n, NoRef, <<>>) :
            n \in {m \in ChildNames(Cur) : budget.dirs > 0}}
    \cup {Stmt("close", <<>>, "", NoRef, <<>>)}

\* The statements that can come next: any of the menu while a source is
\* read, the next one of the text while the text of str(dt) is read
Statements ==
    IF input.free THEN (IF stack = <<>> THEN TopMenu ELSE NodeMenu)
    ELSE IF input.rest = <<>> THEN {}
    ELSE {Head(input.rest)}

Cost(kind) ==
    CASE kind \in {"root", "ref", "child"} -> "opens"
      [] kind \in {"assign", "empty", "delete-property"} -> "props"
      [] kind \in {"delete-node-ref", "omit-if-no-ref", "delete-node",
                   "memreserve"} -> "dirs"
      [] OTHER -> "none"

\* The references in the value of the property 'name' of a node
PropRefs(node, name) ==
    IF PropIndex(node.props, name) = 0 THEN {}
    ELSE LET prop == GetProp(node, name)
         IN  {prop.markers[k].ref :
                 k \in {k \in DOMAIN prop.markers :
                           prop.markers[k].type # _LABEL}}

\* The references in the values of the node 'path' and of its subtree
SubtreeRefs(t, path) ==
    UNION {UNION {PropRefs(t[q], t[q].props[j].name) :
                     j \in DOMAIN t[q].props} :
              q \in {p \in DOMAIN t : IsPrefix(path, p)}}

\* The references the statement st drops: those of the value it replaces,
\* of the property it deletes, or of the subtree it deletes
Discards(st) ==
    CASE st.kind \in {"assign", "delete-property"} /\ stack # <<>> ->
             PropRefs(tree[Cur], st.name)
      [] st.kind = "delete-node" /\ stack # <<>>
            /\ Append(Cur, st.name) \in DOMAIN tree ->
             SubtreeRefs(tree, Append(Cur, st.name))
      [] st.kind = "delete-node-ref" /\ stack = <<>>
            /\ <<>> \in DOMAIN tree ->
             LET node == _resolve_ref(tree, st.ref)
             IN  IF node.ok /\ node.path # <<>>
                 THEN SubtreeRefs(tree, node.path) ELSE {}
      [] OTHER -> {}

\* The parser reads the statement st and becomes r
Read(st, r) ==
    /\ pc = "parse"
    /\ Becomes(r)
    /\ last' = st
    /\ budget' = IF input.free /\ Cost(st.kind) # "none"
                 THEN [budget EXCEPT ![Cost(st.kind)] = @ - 1]
                 ELSE budget
    /\ input' = IF input.free THEN input ELSE [input EXCEPT !.rest = Tail(@)]
    /\ discarded' = discarded \cup Discards(st)
    /\ UNCHANGED <<indexvars, pruned, first, mergevars, transvars, nexusvars,
                   buildvars, exprvars, lexvars, query, devicevars>>

ParseMemreserve(st) ==
    st.kind = "memreserve" /\ stack = <<>> /\ Read(st, memreserve(st))

ParseRoot(st) == st.kind = "root" /\ stack = <<>> /\ Read(st, root(st))

ParseRefOpen(st) == st.kind = "ref" /\ stack = <<>> /\ Read(st, ref_open(st))

ParseDeleteNodeRef(st) ==
    st.kind = "delete-node-ref" /\ stack = <<>> /\ Read(st, delete_node_ref(st))

ParseOmitIfNoRef(st) ==
    st.kind = "omit-if-no-ref" /\ stack = <<>> /\ Read(st, omit_if_no_ref(st))

ParseEOF(st) == st.kind = "eof" /\ stack = <<>> /\ Read(st, eof(st))

ParseChild(st) == st.kind = "child" /\ stack # <<>> /\ Read(st, child_open(st))

ParseAssign(st) == st.kind = "assign" /\ stack # <<>> /\ Read(st, assign(st))

ParseEmptyProp(st) ==
    st.kind = "empty" /\ stack # <<>> /\ Read(st, empty_prop(st))

ParseDeleteNode(st) ==
    st.kind = "delete-node" /\ stack # <<>> /\ Read(st, delete_node(st))

ParseDeleteProperty(st) ==
    st.kind = "delete-property" /\ stack # <<>>
    /\ Read(st, delete_property(st))

ParseClose(st) == st.kind = "close" /\ stack # <<>> /\ Read(st, close(st))

\* A step of DT.__init__() after _parse_dt() leaves everything but what it
\* sets
PostKeeps ==
    UNCHANGED <<stack, toplabel, memreserves, discarded, last, budget, input,
                first,
                mergevars, transvars, nexusvars, buildvars, exprvars, lexvars,
                query, devicevars>>

RegisterPhandles ==
    /\ pc = "register_phandles"
    /\ LET r == _register_phandles(tree)
       IN  IF r.ok
           THEN pc' = "fixup_props" /\ phandle2node' = r.phandle2node
                /\ UNCHANGED err
           ELSE pc' = "DTError" /\ err' = r.err /\ UNCHANGED phandle2node
    /\ UNCHANGED <<tree, alias2node, label2node, label2prop, label2prop_offset,
                   pruned>>
    /\ PostKeeps

FixupProps ==
    /\ pc = "fixup_props"
    /\ LET r == _fixup_props(tree, phandle2node)
       IN  IF r.ok
           THEN pc' = "register_aliases" /\ tree' = r.tree
                /\ phandle2node' = r.phandle2node /\ UNCHANGED err
           ELSE pc' = "DTError" /\ err' = r.err
                /\ UNCHANGED <<tree, phandle2node>>
    /\ UNCHANGED <<alias2node, label2node, label2prop, label2prop_offset,
                   pruned>>
    /\ PostKeeps

RegisterAliases ==
    /\ pc = "register_aliases"
    /\ LET r == _register_aliases(tree)
       IN  IF r.ok
           THEN pc' = "remove_unreferenced" /\ alias2node' = r.alias2node
                /\ UNCHANGED err
           ELSE pc' = "DTError" /\ err' = r.err /\ UNCHANGED alias2node
    /\ UNCHANGED <<tree, phandle2node, label2node, label2prop,
                   label2prop_offset, pruned>>
    /\ PostKeeps

RemoveUnreferenced ==
    /\ pc = "remove_unreferenced"
    /\ LET r == _remove_unreferenced(tree)
       IN  IF r.ok
           THEN /\ pc' = "register_labels" /\ tree' = r.tree
                /\ pruned' = PrunedFrom(tree, <<>>, node_iter(tree), 1)
                /\ UNCHANGED err
           ELSE /\ pc' = "crash" /\ err' = AttributeError("remove_unreferenced")
                /\ UNCHANGED <<tree, pruned>>
    /\ UNCHANGED indexvars
    /\ PostKeeps

RegisterLabels ==
    /\ pc = "register_labels"
    /\ LET r == _register_labels(tree)
       IN  IF r.ok
           THEN /\ pc' = "done" /\ tree' = r.tree
                /\ label2node' = r.label2node /\ label2prop' = r.label2prop
                /\ label2prop_offset' = r.label2prop_offset
                /\ UNCHANGED err
           ELSE /\ pc' = "DTError" /\ err' = r.err
                /\ UNCHANGED <<tree, label2node, label2prop, label2prop_offset>>
    /\ UNCHANGED <<phandle2node, alias2node, pruned>>
    /\ PostKeeps

\* DT.__init__() before _parse_dt()
Constructed ==
    /\ tree = <<>> /\ stack = <<>> /\ toplabel = <<>> /\ pc = "parse"
    /\ err = NoError /\ memreserves = <<>> /\ phandle2node = <<>>
    /\ alias2node = <<>> /\ label2node = <<>> /\ label2prop = <<>>
    /\ label2prop_offset = <<>> /\ pruned = <<>> /\ discarded = {}
    /\ last = Start

DtNext ==
    \/ \E st \in Statements : ParseMemreserve(st)
    \/ \E st \in Statements : ParseRoot(st)
    \/ \E st \in Statements : ParseRefOpen(st)
    \/ \E st \in Statements : ParseDeleteNodeRef(st)
    \/ \E st \in Statements : ParseOmitIfNoRef(st)
    \/ \E st \in Statements : ParseEOF(st)
    \/ \E st \in Statements : ParseChild(st)
    \/ \E st \in Statements : ParseAssign(st)
    \/ \E st \in Statements : ParseEmptyProp(st)
    \/ \E st \in Statements : ParseDeleteNode(st)
    \/ \E st \in Statements : ParseDeleteProperty(st)
    \/ \E st \in Statements : ParseClose(st)
    \/ RegisterPhandles \/ FixupProps \/ RegisterAliases
    \/ RemoveUnreferenced \/ RegisterLabels

DtInit ==
    /\ Constructed
    /\ budget = [opens |-> MaxOpens, props |-> MaxProps, dirs |-> MaxDirs]
    /\ input = [free |-> TRUE, rest |-> <<>>]
    /\ first = <<>>
    /\ MergeIdle /\ TransIdle /\ NexusIdle /\ BuildIdle
    /\ ExprIdle /\ LexIdle /\ QueryIdle /\ DeviceIdle

DtSpec == DtInit /\ [][DtNext]_vars

(***************************************************************************)
(* str(dt): the text is the sequence of its statements.  The constructor   *)
(* is then run on that text.                                               *)
(***************************************************************************)
\* The last 'width' hexadecimal digits of num
RECURSIVE Hex(_, _)
Hex(num, width) ==
    IF width = 0 THEN <<>> ELSE Hex(num \div 16, width - 1) \o <<num % 16>>

\* "{:#018x}".format(num): the sign, '0x' and zero-padded digits, 18
\* characters in all
Format018x(num) ==
    IF num >= 0 THEN Literal("num", Hex(num, 16))
    ELSE Literal("minus", Hex(0 - num, 15))

\* The bytes of value[from:to] as items
Bytes(value, from, to) ==
    [i \in 1..(IF to > from THEN to - from ELSE 0) |-> Byte(value[from + i])]

\* Property.__str__(): the loop over the offset labels from the k-th on, the
\* bytes from 'offset' on before each label, then the bytes after the offset
\* of the last label
RECURSIVE PropertyItems(_, _, _)
PropertyItems(prop, k, offset) ==
    IF k > Len(prop.offset_labels)
    THEN Bytes(prop.value,
               IF k = 1 THEN 0 ELSE prop.offset_labels[k - 1][2],
               Len(prop.value))
    ELSE Bytes(prop.value, offset, prop.offset_labels[k][2])
         \o <<LabelItem(prop.offset_labels[k][1])>>
         \o PropertyItems(prop, k + 1, prop.offset_labels[k][2])

PropertyStr(prop) ==
    IF prop.value = <<>>
    THEN Stmt("empty", prop.labels, prop.name, NoRef, <<>>)
    ELSE Stmt("assign", prop.labels, prop.name, NoRef,
              PropertyItems(prop, 1, 0))

\* Node.__str__(): the labels and the name, the properties, the children in
\* the order of Node.nodes, '};'
RECURSIVE NodeStr(_, _)
RECURSIVE ChildrenStr(_, _, _)
ChildrenStr(t, path, k) ==
    IF k > Len(t[path].nodes) THEN <<>>
    ELSE NodeStr(t, Append(path, t[path].nodes[k]))
         \o ChildrenStr(t, path, k + 1)

NodeStr(t, path) ==
    <<Stmt(IF path = <<>> THEN "root" ELSE "child", t[path].labels,
           IF path = <<>> THEN "" ELSE path[Len(path)], NoRef, <<>>)>>
    \o [j \in DOMAIN t[path].props |-> PropertyStr(t[path].props[j])]
    \o ChildrenStr(t, path, 1)
    \o <<Stmt("close", <<>>, "", NoRef, <<>>)>>

\* DT.__str__()
DTStr ==
    [i \in DOMAIN memreserves |->
        Stmt("memreserve", memreserves[i].labels, "", NoRef,
             <<Format018x(memreserves[i].address),
               Format018x(memreserves[i].size)>>)]
    \o NodeStr(tree, <<>>)
    \o <<Stmt("eof", <<>>, "", NoRef, <<>>)>>

\* The tree of a successful DT() is kept in 'first', and a second DT() is
\* started on str() of it
Str ==
    /\ pc = "done" /\ input.free
    /\ first' = [tree |-> tree, memreserves |-> memreserves]
    /\ input' = [free |-> FALSE, rest |-> DTStr]
    /\ tree' = <<>> /\ stack' = <<>> /\ toplabel' = <<>> /\ pc' = "parse"
    /\ err' = NoError /\ memreserves' = <<>> /\ phandle2node' = <<>>
    /\ alias2node' = <<>> /\ label2node' = <<>> /\ label2prop' = <<>>
    /\ label2prop_offset' = <<>> /\ pruned' = <<>> /\ discarded' = {}
    /\ last' = Start
    /\ UNCHANGED <<budget, mergevars, transvars, nexusvars, buildvars,
                   exprvars, lexvars, query, devicevars>>

RtOpens == 2
RtProps == 1
RtDirs == 1

RoundTripInit ==
    /\ Constructed
    /\ budget = [opens |-> RtOpens, props |-> RtProps, dirs |-> RtDirs]
    /\ input = [free |-> TRUE, rest |-> <<>>]
    /\ first = <<>>
    /\ MergeIdle /\ TransIdle /\ NexusIdle /\ BuildIdle
    /\ ExprIdle /\ LexIdle /\ QueryIdle /\ DeviceIdle

RoundTripNext == DtNext \/ Str

RoundTripSpec == RoundTripInit /\ [][RoundTripNext]_vars

(***************************************************************************)
(*                              Round trip                                 *)
(***************************************************************************)
PropNames(node) == {node.props[j].name : j \in DOMAIN node.props}

\* The same property names, byte values, property labels and offset labels
SameProps(node1, node2) ==
    /\ PropNames(node1) = PropNames(node2)
    /\ \A name \in PropNames(node1) :
          /\ GetProp(node1, name).value = GetProp(node2, name).value
          /\ Range(GetProp(node1, name).labels)
                = Range(GetProp(node2, name).labels)
          /\ Range(GetProp(node1, name).offset_labels)
                = Range(GetProp(node2, name).offset_labels)

\* The same node hierarchy, node labels and properties
SameTree(t1, t2) ==
    /\ DOMAIN t1 = DOMAIN t2
    /\ \A path \in DOMAIN t1 :
          /\ Range(t1[path].labels) = Range(t2[path].labels)
          /\ SameProps(t1[path], t2[path])

\* The second DT() has returned or raised
Reparsed == ~input.free /\ pc \in {"done", "DTError", "crash"}

\* C1: for every source that parses, parsing str(dt) succeeds and gives a
\* tree equal to dt: the same nodes, property names and values, node labels,
\* property labels, offset labels and memreserves.
C1_RoundTrip ==
    Reparsed =>
        /\ pc = "done"
        /\ SameTree(tree, first.tree)
        /\ memreserves = first.memreserves

\* A tree with a property and a child node has been through the round trip
C1_Witness ==
    /\ Reparsed /\ pc = "done"
    /\ \E path \in DOMAIN first.tree :
          path # <<>> /\ first.tree[path].props # <<>>

(***************************************************************************)
(*                             Node reopening                              *)
(***************************************************************************)
\* The parser reads a statement of one of 'kinds' and goes on
Reads(kinds) == pc = "parse" /\ pc' = "parse" /\ last'.kind \in kinds

Opening == {"root", "ref", "child"}

\* The value that a property statement gives
GivenValue(st) ==
    IF st.kind = "empty" THEN <<>>
    ELSE ParseItems(Property(st.name), st.value).value

\* An opening keeps the properties and the children of every node there
\* is; a node that is new is added after the children of its parent
OpeningPreserves ==
    Reads(Opening) =>
        \A path \in DOMAIN tree :
            /\ path \in DOMAIN tree'
            /\ tree'[path].props = tree[path].props
            /\ SubSeq(tree'[path].nodes, 1, Len(tree[path].nodes))
                  = tree[path].nodes

\* A property statement adds its name to the properties of the open node
\* and leaves the other properties and the children
PropertyAdds ==
    Reads({"assign", "empty"}) =>
        /\ PropNames(tree'[Cur]) = PropNames(tree[Cur]) \cup {last'.name}
        /\ \A name \in PropNames(tree[Cur]) \ {last'.name} :
              GetProp(tree'[Cur], name) = GetProp(tree[Cur], name)
        /\ tree'[Cur].nodes = tree[Cur].nodes
        /\ \A path \in DOMAIN tree \ {Cur} :
              path \in DOMAIN tree' /\ tree'[path] = tree[path]

\* The first statement of an opening names a property that the node has
\* from an earlier opening: the value becomes the one given now
LatestValue ==
    (Reads({"assign", "empty"}) /\ last.kind \in Opening
        /\ HasProp(tree[Cur], last'.name)) =>
        GetProp(tree'[Cur], last'.name).value = GivenValue(last')

WithPhandle(t) == {path \in DOMAIN t : HasProp(t[path], "phandle")}

\* The 'phandle' property of the node is 'phandle = < &ref >;'
IsPhandleRef(t, path) ==
    /\ path \in WithPhandle(t)
    /\ Len(GetProp(t[path], "phandle").value) = 4
    /\ Len(GetProp(t[path], "phandle").markers) = 1
    /\ GetProp(t[path], "phandle").markers[1].type = _PHANDLE

\* ... and the reference is to the node itself, to another node
SelfReferential(t, path) ==
    /\ IsPhandleRef(t, path)
    /\ _resolve_ref(t, GetProp(t[path], "phandle").markers[1].ref)
          = OkNode(path)

RefersToAnother(t, path) ==
    /\ IsPhandleRef(t, path)
    /\ _resolve_ref(t, GetProp(t[path], "phandle").markers[1].ref).ok
    /\ ~SelfReferential(t, path)

\* The 'phandle' property of the node has a phandle reference, anywhere in
\* its value, that resolves to another node
ContainsRefToAnother(t, path) ==
    /\ path \in WithPhandle(t)
    /\ \E k \in DOMAIN GetProp(t[path], "phandle").markers :
          LET marker == GetProp(t[path], "phandle").markers[k]
          IN  /\ marker.type = _PHANDLE
              /\ _resolve_ref(t, marker.ref).ok
              /\ _resolve_ref(t, marker.ref) # OkNode(path)

RefersError ==
    pc' = "DTError" /\ err'.kind = "refers to another node"

\* _register_phandles() raises no error about a self-referential phandle
SelfReferentialAccepted ==
    pc = "register_phandles" =>
        /\ \A path \in DOMAIN tree :
              (SelfReferential(tree, path) /\ pc' = "DTError"
                  /\ err'.kind \in {"bad phandle length", "bad value",
                                    "duplicated phandle",
                                    "refers to another node"})
                 => err'.node # path
        /\ (\A path \in WithPhandle(tree) : SelfReferential(tree, path))
              => pc' = "fixup_props"

\* _fixup_props() gives the node a phandle that was not registered, and
\* keeps the labels of the property
SelfReferentialAllocates ==
    (pc = "fixup_props" /\ pc' = "register_aliases") =>
        \A path \in DOMAIN tree :
            SelfReferential(tree, path) =>
                LET phandle == GetProp(tree'[path], "phandle")
                IN  /\ Len(phandle.value) = 4
                    /\ to_num(phandle.value) > 0
                    /\ to_num(phandle.value) \notin DOMAIN phandle2node
                    /\ to_num(phandle.value) \in DOMAIN phandle2node'
                    /\ phandle2node'[to_num(phandle.value)] = path
                    /\ phandle.labels = GetProp(tree[path], "phandle").labels

\* 'phandle = < &other >;' on the first node with a 'phandle' that is not
\* self-referential is what _register_phandles() reports
OtherRejected ==
    pc = "register_phandles" =>
        /\ RefersError =>
              /\ RefersToAnother(tree, err'.node)
              /\ \A path \in WithPhandle(tree) :
                    PathBefore(path, err'.node) => ~RefersToAnother(tree, path)
        /\ \A path \in WithPhandle(tree) :
              (/\ RefersToAnother(tree, path)
               /\ \A other \in WithPhandle(tree) :
                     PathBefore(other, path) => SelfReferential(tree, other))
              => RefersError /\ err'.node = path

C3_Rejected ==
    /\ pc = "DTError" /\ err.kind = "refers to another node"
    /\ RefersToAnother(tree, err.node)

PhandlesWellFormed ==
    \A path \in WithPhandle(tree) :
        LET value == GetProp(tree[path], "phandle").value
        IN  /\ Len(value) = 4
            /\ value \notin {<<0, 0, 0, 0>>, <<255, 255, 255, 255>>}
            /\ \A other \in WithPhandle(tree) \ {path} :
                  GetProp(tree[other], "phandle").value # value
            /\ to_num(value) \in DOMAIN phandle2node
            /\ phandle2node[to_num(value)] = path

\* The 'phandle' of the node is written out in the source, with no phandle
\* reference in it
Explicit(t, path) ==
    /\ path \in WithPhandle(t)
    /\ FirstPhandleMarker(GetProp(t[path], "phandle")) = 0

BadExplicit(t) ==
    \E path \in DOMAIN t :
        /\ Explicit(t, path)
        /\ \/ Len(GetProp(t[path], "phandle").value) # 4
           \/ GetProp(t[path], "phandle").value
                 \in {<<0, 0, 0, 0>>, <<255, 255, 255, 255>>}
           \/ \E other \in DOMAIN t \ {path} :
                 /\ Explicit(t, other)
                 /\ GetProp(t[other], "phandle").value
                       = GetProp(t[path], "phandle").value

\* C4: after a successful parse every 'phandle' is 4 bytes, not 0 and not
\* 0xFFFFFFFF, of one node only and mapped to its node by phandle2node; an
\* explicit phandle of another length, of value 0 or 0xFFFFFFFF, or equal
\* to another explicit phandle makes the parse fail.
C4_PhandleInvariant ==
    /\ [](pc = "done" => PhandlesWellFormed)
    /\ [][(pc = "register_phandles" /\ BadExplicit(tree))
             => pc' = "DTError"]_vars

\* A parse has succeeded with an allocated and an explicit phandle
C4_Witness ==
    /\ pc = "done" /\ Cardinality(DOMAIN phandle2node) = 2
    /\ \E path \in DOMAIN tree : Explicit(tree, path)
    /\ \E path \in DOMAIN tree : ~Explicit(tree, path) /\ HasProp(tree[path], "phandle")

\* A parse has failed on an explicit phandle
C4_Rejected == pc = "DTError" /\ err.kind = "duplicated phandle"

(***************************************************************************)
(*                              Node deletion                              *)
(***************************************************************************)
\* No node of the tree has the label, or is at the path, of the reference
Dangling(t, ref) ==
    IF ref.k = "path" THEN ref.v \notin DOMAIN t
    ELSE \A path \in DOMAIN t : ref.v[1] \notin Range(t[path].labels)

Undefined(ref) ==
    IF ref.k = "path" THEN "does not exist" ELSE "undefined node label"

\* The references that the property values of the tree hold
SurvivingRefs(t) ==
    UNION {UNION {{t[path].props[j].markers[k].ref :
                      k \in {k \in DOMAIN t[path].props[j].markers :
                                t[path].props[j].markers[k].type # _LABEL}} :
                  j \in DOMAIN t[path].props} :
           path \in DOMAIN t}

\* The statement deletes the node 'target'
Deletes(st, target) ==
    CASE st.kind = "delete-node" -> target = Append(Cur, st.name)
      [] st.ref.k = "path" -> target = st.ref.v
      [] OTHER -> st.ref.v[1] \in Range(tree[target].labels)

\* /delete-node/ removes the node and its subtree, and nothing else
DeleteRemoves ==
    Reads({"delete-node", "delete-node-ref"}) =>
        IF last'.kind = "delete-node" /\ Append(Cur, last'.name) \notin DOMAIN tree
        THEN tree' = tree
        ELSE \E target \in DOMAIN tree :
                /\ Deletes(last', target)
                /\ DOMAIN tree' = {path \in DOMAIN tree : ~IsPrefix(target, path)}
                /\ \A path \in DOMAIN tree' :
                      /\ tree'[path].labels = tree[path].labels
                      /\ tree'[path].props = tree[path].props
                      /\ Range(tree'[path].nodes)
                            = {name \in Range(tree[path].nodes) :
                                  Append(path, name) # target}

\* A reference at the top level of the source to a node that is not there
LaterRefFails ==
    (/\ pc = "parse" /\ stack = <<>> /\ <<>> \in DOMAIN tree
     /\ last'.kind \in {"ref", "delete-node-ref", "omit-if-no-ref"}
     /\ Dangling(tree, last'.ref))
    => (pc' = "DTError" /\ err'.kind = Undefined(last'.ref))

\* A reference in a property value to a node that is not there
SurvivingRefFails ==
    (pc = "fixup_props" /\ \E ref \in SurvivingRefs(tree) : Dangling(tree, ref))
    => /\ pc' = "DTError"
       /\ \E ref \in SurvivingRefs(tree) :
             Dangling(tree, ref) /\ err'.kind = Undefined(ref)

\* The indexes are made from the nodes that the tree has then
IndexesFromTree ==
    /\ pc = "register_phandles" => Range(phandle2node') \subseteq DOMAIN tree
    /\ pc = "fixup_props" => Range(phandle2node') \subseteq DOMAIN tree'
    /\ pc = "register_aliases" => Range(alias2node') \subseteq DOMAIN tree
    /\ pc = "register_labels" =>
          /\ Range(label2node') \subseteq DOMAIN tree'
          /\ \A l \in DOMAIN label2prop' :
                label2prop'[l].path \in DOMAIN tree'
          /\ \A l \in DOMAIN label2prop_offset' :
                label2prop_offset'[l].path \in DOMAIN tree'

\* No index has an entry while the source is read, and a parse gets past
\* _fixup_props() with resolved references only
NoDeletedEntry ==
    /\ pc = "parse" =>
          /\ phandle2node = <<>> /\ alias2node = <<>> /\ label2node = <<>>
          /\ label2prop = <<>> /\ label2prop_offset = <<>>
    /\ pc = "register_aliases" =>
          \A ref \in SurvivingRefs(tree) : ~Dangling(tree, ref)

\* C5: /delete-node/ removes the node and its subtree with their labels; a
\* reference by label or path to a node that is not in the tree any more,
\* later in the source or left in a property value, fails with 'undefined
\* node label' or 'does not exist'; phandle2node, alias2node and the label
\* indexes are made after the source is read and hold nodes of the tree only.
C5_DeleteNode ==
    /\ []NoDeletedEntry
    /\ [][DeleteRemoves /\ LaterRefFails /\ SurvivingRefFails
             /\ IndexesFromTree]_vars

\* '/delete-node/ &l1;' has deleted the node l1, and a property value still
\* refers to l1
C5_Witness ==
    /\ pc = "parse" /\ last.kind = "delete-node-ref"
    /\ last.ref = LabelRef("l1")
    /\ LabelRef("l1") \in SurvivingRefs(tree)
    /\ Dangling(tree, LabelRef("l1"))

(***************************************************************************)
(*                            Label uniqueness                             *)
(***************************************************************************)
\* The nodes, properties and positions in values that have the label
Referents(t, label) ==
    {NodeThing(path) :
        path \in {q \in DOMAIN t : label \in Range(t[q].labels)}}
    \cup UNION {{PropThing(path, t[path].props[j].name) :
                    j \in {i \in DOMAIN t[path].props :
                              label \in Range(t[path].props[i].labels)}} :
                path \in DOMAIN t}
    \cup UNION {UNION {{OffsetThing(path, t[path].props[j].name, pair[2]) :
                          pair \in {q \in Range(t[path].props[j].offset_labels) :
                                       q[1] = label}} :
                       j \in DOMAIN t[path].props} :
                path \in DOMAIN t}

Labels == {"l1", "l2"}

Duplicated(t) == {label \in Labels : Cardinality(Referents(t, label)) > 1}

\* The error names a duplicated label and all its locations, sorted
ListsLocations ==
    /\ err'.label \in Duplicated(tree)
    /\ Len(err'.locations) = Cardinality(Referents(tree, err'.label))
    /\ Range(err'.locations)
          = {Location(thing) : thing \in Referents(tree, err'.label)}
    /\ \A i, j \in DOMAIN err'.locations :
          i < j => ~StringBefore(err'.locations[j], err'.locations[i])

\* C6: a parse succeeds only if every label of the final tree has one
\* referent (a node, a property, or a position in a property value); it
\* fails in _register_labels(), with all locations of the label sorted, iff
\* a label has two or more referents.  The same label twice on one
\* referent, and a label of a deleted node, are not duplicates.
C6_LabelUniqueness ==
    /\ [](pc = "done" => Duplicated(tree) = {})
    /\ [][pc = "register_labels" =>
             /\ (Duplicated(tree) = {}) = (pc' = "done")
             /\ (Duplicated(tree) # {}) =
                   (pc' = "DTError" /\ err'.stage = "register_labels")
             /\ Duplicated(tree) # {} => ListsLocations
             /\ pc' = "done" => Duplicated(tree') = {}]_vars

\* A label on a node and in a property value has been reported
C6_Witness ==
    /\ pc = "DTError" /\ err.stage = "register_labels"
    /\ Len(err.locations) = 2
    /\ err.locations[1].on = "offset" /\ err.locations[2].on = "node"

(***************************************************************************)
(*                          dtlib.py: the lexer                            *)
(*                                                                         *)
(* A path is [dir |-> sequence of directory names, base |-> file name],    *)
(* relative to the working directory.  The text of a file is the sequence  *)
(* of its lexemes, each of them what one regular expression of the lexer   *)
(* matches at a position; lexemes are separated by blanks that are not     *)
(* listed, and 'skip' is white space that holds 'nl' newlines:             *)
(*   [lx |-> "include", name |-> path, nl |-> n]   /include/ "name"        *)
(*   [lx |-> "skip", nl |-> n]                                             *)
(*   [lx |-> "token", id |-> id, text |-> s]   another group of _token_re  *)
(*   [lx |-> "text", text |-> s]               not a match of _token_re    *)
(* _tok_end_i counts the lexemes of _file_contents that have been matched. *)
(* One action is one turn of the loop of _next_token().  The parser asks   *)
(* for tokens until it has the end-of-file token or a token it rejects.    *)
(***************************************************************************)
_DEFAULT == "DEFAULT"
_EXPECT_PROPNODENAME == "EXPECT_PROPNODENAME"
_EXPECT_BYTE == "EXPECT_BYTE"

Path(dir, base) == [dir |-> dir, base |-> base]

\* os.path.dirname() and os.path.join()
dirname(path) == path.dir
join(dir, name) == [dir |-> dir \o name.dir, base |-> name.base]

Include(name, nl) ==
    [lx |-> "include", id |-> "INCLUDE", text |-> "", name |-> name, nl |-> nl]
Skip(nl) ==
    [lx |-> "skip", id |-> "SKIP", text |-> "", name |-> Path(<<>>, ""),
     nl |-> nl]
Fixed(id, text) ==
    [lx |-> "token", id |-> id, text |-> text, name |-> Path(<<>>, ""),
     nl |-> 0]
Text(text) ==
    [lx |-> "text", id |-> "", text |-> text, name |-> Path(<<>>, ""),
     nl |-> 0]

\* The texts that _num_re, _propnodename_re, _byte_re and _misc_re match
\* among '10', 'a', ',', '{', ';', '[', ']' and '<'
_num_re(text) == text \in {"10"}
_propnodename_re(text) == text \in {"10", "a", ","}
_byte_re(text) == text \in {"10"}
_misc_re(text) == text \in {",", "{", ";", "[", "]", "<"}

_Token(id, val) == [id |-> id, val |-> val]

\* Where the lexer is: in _next_token(), or left with the end-of-file token
\* or with an exception
LexAt(st) == [st |-> st, kind |-> "", file |-> Path(<<>>, ""), line |-> 0,
              chain |-> <<>>]

\* _parse_error(): the error names DT.filename and DT._lineno
LexParseError(kind, chain) ==
    [st |-> "DTError", kind |-> kind, file |-> self_filename, line |-> _lineno,
     chain |-> chain]

\* The include path given to DT()
IncludePath == <<<<"inc">>>>

\* _open(): the directory of the current file first, then the directories
\* of the include path in order; the path the file was opened with (f.name)
RECURSIVE OpenFrom(_, _)
OpenFrom(name, k) ==
    IF k > Len(IncludePath) THEN [ok |-> FALSE, name |-> name]
    ELSE IF join(IncludePath[k], name) \in DOMAIN fs
    THEN [ok |-> TRUE, name |-> join(IncludePath[k], name)]
    ELSE OpenFrom(name, k + 1)

_open(name) ==
    IF join(dirname(self_filename), name) \in DOMAIN fs
    THEN [ok |-> TRUE, name |-> join(dirname(self_filename), name)]
    ELSE OpenFrom(name, 1)

\* An entry of DT._filestack
StackEntry(file, line, contents, pos) ==
    [filename |-> file, lineno |-> line, file_contents |-> contents,
     tok_end_i |-> pos]

\* The lexeme at the position of the lexer
AtEnd == _tok_end_i >= Len(_file_contents)
Lexeme == _file_contents[_tok_end_i + 1]

InNextToken == lexpc.st = "next_token"

\* The first entry of the stack from the i-th on whose file name equals
\* the name of the directive, 0 if there is none
RECURSIVE FirstParent(_, _, _)
FirstParent(filestack, name, i) ==
    IF i > Len(filestack) THEN 0
    ELSE IF name = filestack[i].filename THEN i
    ELSE FirstParent(filestack, name, i + 1)

\* The chain of the error 'recursive /include/'
IncludeChain(filestack, i, name) ==
    [k \in 1..(Len(filestack) - i + 1) |->
        <<filestack[i + k - 1].filename, filestack[i + k - 1].lineno>>]
    \o <<<<name>>>>

LexKeeps ==
    UNCHANGED <<fs, mergevars, transvars, nexusvars, buildvars, parservars,
                exprvars, query, devicevars>>

MaxIncludeDepth == 4

\* _T_SKIP: white space and comments
SkipToken ==
    /\ InNextToken /\ ~AtEnd /\ Lexeme.lx = "skip"
    /\ _tok_end_i' = _tok_end_i + 1
    /\ _lineno' = _lineno + Lexeme.nl
    /\ UNCHANGED <<self_filename, _file_contents, _filestack, _lexer_state,
                   lexpc, token_stream>>
    /\ LexKeeps

\* _T_INCLUDE and _enter_file()
EnterFile ==
    /\ InNextToken /\ ~AtEnd /\ Lexeme.lx = "include"
    /\ Len(_filestack) < MaxIncludeDepth
    /\ LET lineno == _lineno + Lexeme.nl
           filestack == Append(_filestack,
                               StackEntry(self_filename, lineno,
                                          _file_contents, _tok_end_i + 1))
           f == _open(Lexeme.name)
           i == FirstParent(filestack, Lexeme.name, 1)
       IN  /\ _tok_end_i' = IF f.ok /\ i = 0 THEN 0 ELSE _tok_end_i + 1
           /\ _lineno' = IF f.ok /\ i = 0 THEN 1 ELSE lineno
           /\ _filestack' = filestack
           /\ _file_contents' = IF f.ok THEN fs[f.name] ELSE _file_contents
           /\ self_filename' = IF f.ok /\ i = 0 THEN f.name ELSE self_filename
           /\ lexpc' =
                 IF ~f.ok
                 THEN [LexParseError("could not be found", <<>>)
                          EXCEPT !.line = lineno]
                 ELSE IF i # 0
                 THEN [LexParseError("recursive /include/",
                                     IncludeChain(filestack, i, Lexeme.name))
                          EXCEPT !.line = lineno]
                 ELSE lexpc
    /\ UNCHANGED <<_lexer_state, token_stream>>
    /\ LexKeeps

\* A bug: the line number of the included file is kept
LeaveFileKeepsLine ==
    /\ InNextToken /\ AtEnd /\ _filestack # <<>>
    /\ LET top == _filestack[Len(_filestack)]
       IN  /\ self_filename' = top.filename
           /\ _file_contents' = top.file_contents
           /\ _tok_end_i' = top.tok_end_i
    /\ _filestack' = SubSeq(_filestack, 1, Len(_filestack) - 1)
    /\ UNCHANGED <<_lineno, _lexer_state, lexpc, token_stream>>
    /\ LexKeeps

\* _T_EOF in an included file: _leave_file()
LeaveFile ==
    /\ InNextToken /\ AtEnd /\ _filestack # <<>>
    /\ LET top == _filestack[Len(_filestack)]
       IN  /\ self_filename' = top.filename
           /\ _lineno' = top.lineno
           /\ _file_contents' = top.file_contents
           /\ _tok_end_i' = top.tok_end_i
    /\ _filestack' = SubSeq(_filestack, 1, Len(_filestack) - 1)
    /\ UNCHANGED <<_lexer_state, lexpc, token_stream>>
    /\ LexKeeps

\* _T_EOF in the top-level file
ReturnEOF ==
    /\ InNextToken /\ AtEnd /\ _filestack = <<>>
    /\ token_stream' = Append(token_stream, _Token("EOF", "<EOF>"))
    /\ lexpc' = LexAt("EOF")
    /\ UNCHANGED <<self_filename, _lineno, _file_contents, _tok_end_i,
                   _filestack, _lexer_state>>
    /\ LexKeeps

\* The state handling at the end of _next_token()
StateAfter(state, tok_id, tok_val) ==
    IF tok_id \in {"DEL_PROP", "DEL_NODE", "OMIT_IF_NO_REF"}
       \/ tok_val \in {"{", ";"}
    THEN _EXPECT_PROPNODENAME
    ELSE IF tok_val = "[" THEN _EXPECT_BYTE
    ELSE IF tok_id \in {"MEMRESERVE", "BITS"} \/ tok_val = "]" THEN _DEFAULT
    ELSE state

\* A token is returned: the position moves behind it
Return(tok_id, tok_val, state) ==
    /\ _tok_end_i' = _tok_end_i + 1
    /\ _lexer_state' = StateAfter(state, tok_id, tok_val)
    /\ token_stream' = Append(token_stream, _Token(tok_id, tok_val))
    /\ UNCHANGED <<self_filename, _lineno, _file_contents, _filestack, lexpc>>
    /\ LexKeeps

\* Another match of _token_re: a string, a directive, a label, ...
ReturnToken ==
    /\ InNextToken /\ ~AtEnd /\ Lexeme.lx = "token"
    /\ Return(Lexeme.id, Lexeme.text, _lexer_state)

ReturnNum ==
    /\ InNextToken /\ ~AtEnd /\ Lexeme.lx = "text"
    /\ _lexer_state = _DEFAULT /\ _num_re(Lexeme.text)
    /\ Return("NUM", Lexeme.text, _lexer_state)

ReturnPropNodeName ==
    /\ InNextToken /\ ~AtEnd /\ Lexeme.lx = "text"
    /\ _lexer_state = _EXPECT_PROPNODENAME /\ _propnodename_re(Lexeme.text)
    /\ Return("PROPNODENAME", Lexeme.text, _DEFAULT)

ReturnByte ==
    /\ InNextToken /\ ~AtEnd /\ Lexeme.lx = "text"
    /\ _lexer_state = _EXPECT_BYTE /\ _byte_re(Lexeme.text)
    /\ Return("BYTE", Lexeme.text, _lexer_state)

\* No match of the regular expression of the lexer state
NoStateMatch ==
    CASE _lexer_state = _DEFAULT -> ~_num_re(Lexeme.text)
      [] _lexer_state = _EXPECT_PROPNODENAME -> ~_propnodename_re(Lexeme.text)
      [] OTHER -> ~_byte_re(Lexeme.text)

ReturnMisc ==
    /\ InNextToken /\ ~AtEnd /\ Lexeme.lx = "text"
    /\ NoStateMatch /\ _misc_re(Lexeme.text)
    /\ Return("MISC", Lexeme.text, _lexer_state)

\* _T_BAD: the position stays, and the parser raises a parse error
ReturnBad ==
    /\ InNextToken /\ ~AtEnd /\ Lexeme.lx = "text"
    /\ NoStateMatch /\ ~_misc_re(Lexeme.text)
    /\ token_stream' = Append(token_stream, _Token("BAD", "<unknown token>"))
    /\ lexpc' = LexParseError("unknown token", <<>>)
    /\ UNCHANGED <<self_filename, _lineno, _file_contents, _tok_end_i,
                   _filestack, _lexer_state>>
    /\ LexKeeps

LexNext ==
    \/ SkipToken \/ EnterFile \/ LeaveFile \/ ReturnEOF \/ ReturnToken
    \/ ReturnNum \/ ReturnPropNodeName \/ ReturnByte \/ ReturnMisc
    \/ ReturnBad

(***************************************************************************)
(* The files the lexer is run on.  A source of one file holds up to        *)
(* MaxLexemes lexemes.  A source of several files has 'a.dts' in the       *)
(* working directory or in 'sub', and 'b.dtsi' next to it, in the          *)
(* directory 'inc' of the include path, or nowhere.                        *)
(***************************************************************************)
MaxLexemes == 3
MaxIncluded == 2

SeqsUpTo(elems, n) == UNION {[1..k -> elems] : k \in 0..n}

FileA == Path(<<>>, "a.dts")
FileB == Path(<<>>, "b.dtsi")

TokenLexemes ==
    {Text("{"), Text(";"), Text("["), Text("]"), Text(","), Text("<"),
     Text("10"), Text("a"),
     Fixed("DEL_NODE", "/delete-node/"), Fixed("DEL_PROP", "/delete-property/"),
     Fixed("OMIT_IF_NO_REF", "/omit-if-no-ref/"),
     Fixed("MEMRESERVE", "/memreserve/"), Fixed("BITS", "/bits/"),
     Fixed("STRING", "["), Fixed("STRING", "{"), Fixed("LABEL", "a"),
     Skip(1)}

IncluderLexemes ==
    {Include(FileA, 0), Include(FileB, 1), Skip(1), Text("10"), Text("a")}

IncludedLexemes == {Include(FileA, 0), Include(FileB, 0), Skip(1), Text("10")}

HasInclude(contents) == \E i \in DOMAIN contents : contents[i].lx = "include"

\* The file system of a source whose top file includes nothing, and of one
\* whose top file may include 'b.dtsi' from the directory 'dir'
OneFile(top, contents) == top :> contents

SeveralFiles(top, contents, dir, included) ==
    (top :> contents) @@ (join(dir, FileB) :> included)

\* DT.__init__() reading the file 'top' of the file system 'files'
Opened(top, files) ==
    /\ fs = files
    /\ self_filename = top
    /\ _file_contents = files[top]

\* DT.__init__() before _parse_dt()
LexInit ==
    /\ \/ \E contents \in SeqsUpTo(TokenLexemes, MaxLexemes) :
             Opened(FileA, OneFile(FileA, contents))
       \/ \E top \in {FileA, join(<<"sub">>, FileA)},
             contents \in {c \in SeqsUpTo(IncluderLexemes, MaxLexemes) :
                              HasInclude(c)} :
             \/ Opened(top, OneFile(top, contents))
             \/ \E dir \in {dirname(top), <<"inc">>},
                   included \in SeqsUpTo(IncludedLexemes, MaxIncluded) :
                   Opened(top, SeveralFiles(top, contents, dir, included))
    /\ _tok_end_i = 0 /\ _filestack = <<>> /\ _lexer_state = _DEFAULT
    /\ _lineno = 1 /\ lexpc = LexAt("next_token") /\ token_stream = <<>>
    /\ MergeIdle /\ TransIdle /\ NexusIdle /\ BuildIdle
    /\ ParserIdle /\ ExprIdle /\ QueryIdle /\ DeviceIdle

LexSpec == LexInit /\ [][LexNext]_vars

(***************************************************************************)
(* C11                                                                     *)
(***************************************************************************)
\* The files the lexer is in: the current file and the including files
OnIncludeStack ==
    {self_filename} \cup {_filestack[i].filename : i \in DOMAIN _filestack}

\* The lexer is at an /include/ of a file that is open
AtIncludeOfOpenFile ==
    /\ InNextToken /\ ~AtEnd /\ Lexeme.lx = "include"
    /\ _open(Lexeme.name).ok
    /\ _open(Lexeme.name).name \in OnIncludeStack

\* The error lists the including files from the first inclusion of the
\* file on, and the file
ListsIncludeChain ==
    /\ lexpc'.st = "DTError" /\ lexpc'.kind = "recursive /include/"
    /\ Len(lexpc'.chain) >= 2
    /\ lexpc'.chain[Len(lexpc'.chain)] = <<Lexeme.name>>
    /\ \A k \in 1..(Len(lexpc'.chain) - 1) :
          lexpc'.chain[k][1] \in OnIncludeStack

\* C11: an /include/ of a file that is on the include stack (the top-level
\* file or a file being included), through whatever directory it is found,
\* raises the parse error 'recursive /include/' with the include chain and
\* does not enter the file again; no file is on the include stack twice
\* while the lexer runs.
C11_RecursiveInclude ==
    /\ [](InNextToken => Cardinality(OnIncludeStack) = Len(_filestack) + 1)
    /\ [][AtIncludeOfOpenFile =>
             /\ ListsIncludeChain
             /\ self_filename' = self_filename]_vars

\* The recursion of a file of the working directory has been reported
C11_Witness ==
    /\ lexpc.st = "DTError" /\ lexpc.kind = "recursive /include/"
    /\ Len(lexpc.chain) = 3
    /\ lexpc.chain[1][1] = FileA /\ lexpc.chain[2][1] = FileB
    /\ lexpc.chain[3] = <<FileA>>

(***************************************************************************)
(*                   dtlib.py: expression evaluation                       *)
(*                                                                         *)
(* The evaluator reads the tokens 'toks' from the i-th on.  A call ends as *)
(*   [st |-> "ok", val |-> the value, i |-> the next token to read],       *)
(*   [st |-> "DTError", kind |-> the parse error, i |-> the token that     *)
(*    self._tok_i points at], or                                           *)
(*   [st |-> "ValueError"], the exception of Python's shift operators.     *)
(* Python's integers are unbounded; the expressions evaluated here stay    *)
(* far below 2^31.                                                         *)
(***************************************************************************)
\* A token of the evaluator: the value of a number is 'num', and 'val' is
\* the text of any other token
ExprToken(id, val, num) == [id |-> id, val |-> val, num |-> num]
Num(n) == ExprToken("NUM", "", n)
Op(s) == ExprToken("MISC", s, 0)

\* The token _peek_token() returns at position i; after the expression
\* comes the rest of the file
Tok(toks, i) ==
    IF i <= Len(toks) THEN toks[i] ELSE ExprToken("EOF", "<EOF>", 0)

\* tok.val == val for a string val: a number never equals a string
HasVal(tok, val) == tok.id # "NUM" /\ tok.val = val

Value(val, i) == [st |-> "ok", val |-> val, i |-> i, kind |-> ""]
ExprParseError(kind, i) == [st |-> "DTError", val |-> 0, i |-> i, kind |-> kind]
ValueError(i) ==
    [st |-> "ValueError", val |-> 0, i |-> i, kind |-> "negative shift count"]

\* Python's // and % for a divisor that is not zero
FloorDiv(a, b) ==
    LET n == IF b > 0 THEN a ELSE 0 - a
        d == IF b > 0 THEN b ELSE 0 - b
    IN  IF n >= 0 THEN n \div d ELSE 0 - ((d - n - 1) \div d)

PyMod(a, b) == a - b * FloorDiv(a, b)

RECURSIVE Pow2(_)
Pow2(n) == IF n = 0 THEN 1 ELSE 2 * Pow2(n - 1)

\* Python's &, | and ^ on integers of either sign
RECURSIVE PyAnd(_, _)
PyAnd(a, b) ==
    IF a = 0 \/ b = 0 THEN 0
    ELSE IF a = 0 - 1 THEN b
    ELSE IF b = 0 - 1 THEN a
    ELSE PyMod(a, 2) * PyMod(b, 2) + 2 * PyAnd(FloorDiv(a, 2), FloorDiv(b, 2))

PyOr(a, b) == a + b - PyAnd(a, b)
PyXor(a, b) == a + b - 2 * PyAnd(a, b)

Bool(b) == IF b THEN 1 ELSE 0

\* The function that a function of the evaluator calls for its operands,
\* and the operators its loop checks for
Operand(level) ==
    CASE level = "_eval_or" -> "_eval_and"
      [] level = "_eval_and" -> "_eval_bitor"
      [] level = "_eval_bitor" -> "_eval_bitxor"
      [] level = "_eval_bitxor" -> "_eval_bitand"
      [] level = "_eval_bitand" -> "_eval_eq"
      [] level = "_eval_eq" -> "_eval_rela"
      [] level = "_eval_rela" -> "_eval_shift"
      [] level = "_eval_shift" -> "_eval_add"
      [] level = "_eval_add" -> "_eval_mul"
      [] OTHER -> "_eval_unary"

\* A bug: '+' and '-' are the operators of _eval_mul(), and '*', '/' and
\* '%' those of _eval_add()
OperatorsAddInMul(level) ==
    CASE level = "_eval_or" -> {"||"}
      [] level = "_eval_and" -> {"&&"}
      [] level = "_eval_bitor" -> {"|"}
      [] level = "_eval_bitxor" -> {"^"}
      [] level = "_eval_bitand" -> {"&"}
      [] level = "_eval_eq" -> {"==", "!="}
      [] level = "_eval_rela" -> {"<", ">", "<=", ">="}
      [] level = "_eval_shift" -> {"<<", ">>"}
      [] level = "_eval_add" -> {"*", "/", "%"}
      [] OTHER -> {"+", "-"}

Operators(level) ==
    CASE level = "_eval_or" -> {"||"}
      [] level = "_eval_and" -> {"&&"}
      [] level = "_eval_bitor" -> {"|"}
      [] level = "_eval_bitxor" -> {"^"}
      [] level = "_eval_bitand" -> {"&"}
      [] level = "_eval_eq" -> {"==", "!="}
      [] level = "_eval_rela" -> {"<", ">", "<=", ">="}
      [] level = "_eval_shift" -> {"<<", ">>"}
      [] level = "_eval_add" -> {"+", "-"}
      [] OTHER -> {"*", "/", "%"}

\* One turn of the loop of a binary function: val <op>= rhs, rhs being how
\* the evaluation of the right operand ended
Apply(op, val, rhs) ==
    CASE op = "||" -> Value(Bool(rhs.val # 0 \/ val # 0), rhs.i)
      [] op = "&&" -> Value(Bool(rhs.val # 0 /\ val # 0), rhs.i)
      [] op = "|" -> Value(PyOr(val, rhs.val), rhs.i)
      [] op = "^" -> Value(PyXor(val, rhs.val), rhs.i)
      [] op = "&" -> Value(PyAnd(val, rhs.val), rhs.i)
      [] op = "==" -> Value(Bool(val = rhs.val), rhs.i)
      [] op = "!=" -> Value(Bool(val # rhs.val), rhs.i)
      [] op = "<" -> Value(Bool(val < rhs.val), rhs.i)
      [] op = ">" -> Value(Bool(val > rhs.val), rhs.i)
      [] op = "<=" -> Value(Bool(val <= rhs.val), rhs.i)
      [] op = ">=" -> Value(Bool(val >= rhs.val), rhs.i)
      [] op = "<<" -> IF rhs.val < 0 THEN ValueError(rhs.i - 1)
                      ELSE Value(val * Pow2(rhs.val), rhs.i)
      [] op = ">>" -> IF rhs.val < 0 THEN ValueError(rhs.i - 1)
                      ELSE Value(FloorDiv(val, Pow2(rhs.val)), rhs.i)
      [] op = "+" -> Value(val + rhs.val, rhs.i)
      [] op = "-" -> Value(val - rhs.val, rhs.i)
      [] op = "*" -> Value(val * rhs.val, rhs.i)
      [] op = "/" -> IF rhs.val = 0
                     THEN ExprParseError("division by zero", rhs.i - 1)
                     ELSE Value(FloorDiv(val, rhs.val), rhs.i)
      [] OTHER -> IF rhs.val = 0
                  THEN ExprParseError("division by zero", rhs.i - 1)
                  ELSE Value(PyMod(val, rhs.val), rhs.i)

\* _eval_prim(), _eval_ternary(), _eval_or() ... _eval_mul() and
\* _eval_unary(): 'level' is the name of the function
RECURSIVE Eval(_, _, _)
RECURSIVE EvalLoop(_, _, _)
Eval(level, toks, i) ==
    CASE level = "_eval_prim" ->
            IF Tok(toks, i).id \in {"NUM", "CHAR_LITERAL"}
            THEN Value(Tok(toks, i).num, i + 1)
            ELSE IF ~HasVal(Tok(toks, i), "(")
            THEN ExprParseError("expected number or parenthesized expression",
                                i)
            ELSE LET val == Eval("_eval_ternary", toks, i + 1)
                 IN  IF val.st # "ok" THEN val
                     ELSE IF ~HasVal(Tok(toks, val.i), ")")
                     THEN ExprParseError("expected ')'", val.i)
                     ELSE [val EXCEPT !.i = val.i + 1]
      [] level = "_eval_unary" ->
            IF HasVal(Tok(toks, i), "-")
            THEN LET val == Eval("_eval_unary", toks, i + 1)
                 IN  IF val.st # "ok" THEN val
                     ELSE [val EXCEPT !.val = 0 - val.val]
            ELSE IF HasVal(Tok(toks, i), "~")
            THEN LET val == Eval("_eval_unary", toks, i + 1)
                 IN  IF val.st # "ok" THEN val
                     ELSE [val EXCEPT !.val = 0 - val.val - 1]
            ELSE IF HasVal(Tok(toks, i), "!")
            THEN LET val == Eval("_eval_unary", toks, i + 1)
                 IN  IF val.st # "ok" THEN val
                     ELSE [val EXCEPT !.val = Bool(val.val = 0)]
            ELSE Eval("_eval_prim", toks, i)
      [] level = "_eval_ternary" ->
            LET val == Eval("_eval_or", toks, i)
            IN  IF val.st # "ok" \/ ~HasVal(Tok(toks, val.i), "?") THEN val
                ELSE
                LET if_val == Eval("_eval_ternary", toks, val.i + 1)
                IN  IF if_val.st # "ok" THEN if_val
                    ELSE IF ~HasVal(Tok(toks, if_val.i), ":")
                    THEN ExprParseError("expected ':'", if_val.i)
                    ELSE
                    LET else_val == Eval("_eval_ternary", toks, if_val.i + 1)
                    IN  IF else_val.st # "ok" THEN else_val
                        ELSE Value(IF val.val # 0 THEN if_val.val
                                   ELSE else_val.val, else_val.i)
      [] OTHER -> EvalLoop(level, toks, Eval(Operand(level), toks, i))

\* The loop of a binary function, 'val' being the value so far
EvalLoop(level, toks, val) ==
    IF val.st # "ok" THEN val
    ELSE IF Tok(toks, val.i).id # "NUM"
            /\ Tok(toks, val.i).val \in Operators(level)
    THEN LET rhs == Eval(Operand(level), toks, val.i + 1)
         IN  IF rhs.st # "ok" THEN rhs
             ELSE EvalLoop(level, toks,
                           Apply(Tok(toks, val.i).val, val.val, rhs))
    ELSE val

(***************************************************************************)
(* Cell arrays.  The number of a cell can be wider than the integers of    *)
(* the evaluator above: a number is then [neg |-> sign, mag |-> the bytes  *)
(* of its magnitude, most significant first and without leading zeros].    *)
(* A cell is a sequence of tokens that _eval_prim() evaluates, or a wide   *)
(* literal: [form |-> "num", mag |-> m] or, for '(-literal)',              *)
(* [form |-> "paren-neg", mag |-> m].                                      *)
(***************************************************************************)
\* A byte string: its first byte, and the others
Filled(msb, others, length) ==
    [i \in 1..length |-> IF i = 1 THEN msb ELSE others]

RECURSIVE BytesOfNat(_)
BytesOfNat(n) ==
    IF n = 0 THEN <<>> ELSE BytesOfNat(n \div 256) \o <<n % 256>>

IntToBig(n) == [neg |-> n < 0, mag |-> BytesOfNat(IF n < 0 THEN 0 - n ELSE n)]

\* bytes + 1, the carry out of the first byte dropped
RECURSIVE AddOne(_)
AddOne(bytes) ==
    IF bytes = <<>> THEN <<>>
    ELSE IF bytes[Len(bytes)] < 255
    THEN [bytes EXCEPT ![Len(bytes)] = @ + 1]
    ELSE AddOne(SubSeq(bytes, 1, Len(bytes) - 1)) \o <<0>>

OverflowError == [ok |-> FALSE, bytes |-> <<>>]

\* A bug: a negative number whose magnitude is 2^(8 * length - 1) does not
\* fit
ToBytesSignBitExcluded(num, length, signed) ==
    LET padded == rjust(num.mag, length, 0)
        twos == AddOne(_not(padded))
    IN  IF Len(num.mag) > length THEN OverflowError
        ELSE IF ~signed
        THEN IF num.neg THEN OverflowError ELSE [ok |-> TRUE, bytes |-> padded]
        ELSE IF ~num.neg
        THEN IF length = 0 \/ padded[1] >= 128 THEN OverflowError
             ELSE [ok |-> TRUE, bytes |-> padded]
        ELSE IF twos[1] < 128 \/ twos = Filled(128, 0, length)
        THEN OverflowError
        ELSE [ok |-> TRUE, bytes |-> twos]

\* int.to_bytes(length, "big", signed=signed)
to_bytes(num, length, signed) ==
    LET padded == rjust(num.mag, length, 0)
        twos == AddOne(_not(padded))
    IN  IF Len(num.mag) > length THEN OverflowError
        ELSE IF ~signed
        THEN IF num.neg THEN OverflowError ELSE [ok |-> TRUE, bytes |-> padded]
        ELSE IF ~num.neg
        THEN IF length = 0 \/ padded[1] >= 128 THEN OverflowError
             ELSE [ok |-> TRUE, bytes |-> padded]
        ELSE IF twos[1] < 128 THEN OverflowError
        ELSE [ok |-> TRUE, bytes |-> twos]

BitsToken == ExprToken("BITS", "/bits/", 0)

CellsResult(st, kind, value, num, bits) ==
    [st |-> st, kind |-> kind, value |-> value, num |-> num, bits |-> bits]

\* _parse_cells() at a literal value: the number, encoded unsigned and, if
\* that overflows, signed, is appended to the value
ParseCell(value, cell, bits) ==
    LET val == Eval("_eval_prim", cell.toks, 1)
        num == IF cell.form = "expr" THEN IntToBig(val.val)
               ELSE [neg |-> cell.form = "paren-neg" /\ cell.mag # <<>>,
                     mag |-> cell.mag]
        unsigned == to_bytes(num, bits \div 8, FALSE)
        signed == to_bytes(num, bits \div 8, TRUE)
    IN  IF cell.form = "expr" /\ val.st # "ok"
        THEN CellsResult(val.st, val.kind, value, IntToBig(0), bits)
        ELSE IF unsigned.ok
        THEN CellsResult("ok", "", value \o unsigned.bytes, num, bits)
        ELSE IF signed.ok
        THEN CellsResult("ok", "", value \o signed.bytes, num, bits)
        ELSE CellsResult("DTError", "does not fit", value, num, bits)

\* _parse_assignment() at '<' and at '/bits/': 'head' are the tokens up to
\* the first cell
_parse_cells(value, head, cell) ==
    IF HasVal(Tok(head, 1), "<") THEN ParseCell(value, cell, 32)
    ELSE IF Tok(head, 1).id # "BITS"
    THEN CellsResult("DTError", "malformed value", value, IntToBig(0), 0)
    ELSE IF Tok(head, 2).id # "NUM"
    THEN CellsResult("DTError", "expected number", value, IntToBig(0), 0)
    ELSE IF Tok(head, 2).num \notin {8, 16, 32, 64}
    THEN CellsResult("DTError", "expected 8, 16, 32, or 64", value,
                     IntToBig(0), Tok(head, 2).num)
    ELSE IF ~HasVal(Tok(head, 3), "<")
    THEN CellsResult("DTError", "expected '<'", value, IntToBig(0),
                     Tok(head, 2).num)
    ELSE ParseCell(value, cell, Tok(head, 2).num)

(***************************************************************************)
(* The expressions and cells evaluated: parenthesized expressions of up to *)
(* three operands, and for each width the numbers around -2^(N-1), 2^(N-1) *)
(* and 2^N.                                                                *)
(***************************************************************************)
MaxAtom == 3

Atoms == {Num(n) : n \in 0..MaxAtom}

BinaryLevels ==
    {"_eval_or", "_eval_and", "_eval_bitor", "_eval_bitxor", "_eval_bitand",
     "_eval_eq", "_eval_rela", "_eval_shift", "_eval_add", "_eval_mul"}

BinaryOps == {Op(s) : s \in UNION {Operators(l) : l \in BinaryLevels}}

UnaryOps == {Op("-"), Op("~"), Op("!")}

Paren(toks) == <<Op("(")>> \o toks \o <<Op(")")>>

\* The expression evaluated is 'toks' in parentheses
Parenthesized(toks) == expr_in = [kind |-> "expr", toks |-> Paren(toks)]

\* The expression evaluated is one of the shapes above
Expressions ==
    \/ \E a \in Atoms, o1 \in BinaryOps, b \in Atoms, o2 \in BinaryOps,
          c \in Atoms \ {Num(0)} :
          Parenthesized(<<a, o1, b, o2, c>>)
    \/ \E u \in UnaryOps, a \in Atoms, o \in BinaryOps, b \in Atoms :
          \/ Parenthesized(<<u, a, o, b>>)
          \/ Parenthesized(<<a, o, u, b>>)
    \/ \E u \in UnaryOps, v \in UnaryOps, a \in Atoms :
          Parenthesized(<<u, v, a>>)
    \/ \E a \in Atoms, b \in Atoms, c \in Atoms, d \in Atoms :
          \/ Parenthesized(<<a, Op("?"), b, Op(":"), c, Op("?"), d, Op(":"),
                            Num(0)>>)
          \/ Parenthesized(<<a, Op("?"), b, Op("?"), c, Op(":"), d, Op(":"),
                            Num(0)>>)
    \/ \E a \in Atoms, o \in BinaryOps, b \in Atoms, c \in Atoms :
          \/ Parenthesized(<<a, o, b, Op("?"), c, Op(":"), Num(0)>>)
          \/ Parenthesized(<<a, Op("?"), Num(0), Op(":"), b, o, c>>)
    \/ \E a \in Atoms, o1 \in BinaryOps, b \in Atoms, o2 \in BinaryOps,
          c \in {Num(0), Num(2)} :
          Parenthesized(Paren(<<a, o1, b>>) \o <<o2, c>>)
    \/ \E a \in {Num(1), Num(3)}, o1 \in BinaryOps, b \in Atoms,
          o2 \in BinaryOps, c \in Atoms :
          Parenthesized(<<a, o1>> \o Paren(<<b, o2, c>>))
    \/ \E s \in {Op("<<"), Op(">>")}, u \in UnaryOps, a \in Atoms,
          o \in BinaryOps, d \in {Op("/"), Op("%")} :
          Parenthesized(<<Num(1), s, u, a, o, Num(1), d, Num(0)>>)
    \/ \E o \in {Op("+"), Op("/")} :
          \/ Parenthesized(<<Num(1), o>>)
          \/ Parenthesized(<<Num(1), o, Op(")")>>)
          \/ Parenthesized(<<o, Num(1)>>)
          \/ Parenthesized(<<Num(1), Op("?"), Num(2)>>)

\* 2^(N-1) - 1, 2^(N-1), 2^(N-1) + 1, 2^N - 1, 2^N and 2^N + 1 for N = 8 * length
Magnitudes(length) ==
    {Filled(127, 255, length), Filled(128, 0, length),
     [Filled(128, 0, length) EXCEPT ![length] = @ + 1],
     Filled(255, 255, length), <<1>> \o Filled(0, 0, length),
     <<1>> \o [Filled(0, 0, length) EXCEPT ![length] = 1]}

Wide(form, mag) == [form |-> form, mag |-> mag, toks |-> <<>>]
CellExpr(toks) == [form |-> "expr", mag |-> <<>>, toks |-> toks]

CellChoices ==
    {Wide(form, mag) :
        form \in {"num", "paren-neg"},
        mag \in {<<>>, <<1>>} \cup UNION {Magnitudes(l) : l \in {1, 2, 4, 8}}}
    \cup {CellExpr(toks) :
            toks \in {<<Num(2)>>, Paren(<<Op("-"), Num(2)>>),
                      Paren(<<Num(1), Op("<<"), Num(8)>>),
                      Paren(<<Num(0), Op("-"), Num(1), Op("<<"), Num(7)>>),
                      Paren(<<Num(1), Op("/"), Num(0)>>),
                      Paren(<<Num(1), Op("<<"), Op("-"), Num(1)>>)}}

Heads ==
    {<<Op("<")>>, <<BitsToken, Op("<")>>}
    \cup {<<BitsToken, Num(n), Op("<")>> : n \in {0, 8, 12, 16, 32, 64, 128}}

ExprInit ==
    /\ \/ Expressions
       \/ \E head \in Heads, cell \in CellChoices, value \in {<<>>, <<7>>} :
             expr_in = [kind |-> "cells", head |-> head, cell |-> cell,
                        value |-> value]
    /\ expr_out = [st |-> "none"]
    /\ MergeIdle /\ TransIdle /\ NexusIdle /\ BuildIdle
    /\ ParserIdle /\ LexIdle /\ QueryIdle /\ DeviceIdle

ExprKeeps ==
    UNCHANGED <<expr_in, mergevars, transvars, nexusvars, buildvars,
                parservars, lexvars, query, devicevars>>

\* _eval_prim() on a parenthesized expression
EvalPrim ==
    /\ expr_out.st = "none" /\ expr_in.kind = "expr"
    /\ expr_out' = Eval("_eval_prim", expr_in.toks, 1)
    /\ ExprKeeps

\* '<' or '/bits/ N <' and one cell
ParseCells ==
    /\ expr_out.st = "none" /\ expr_in.kind = "cells"
    /\ expr_out' = _parse_cells(expr_in.value, expr_in.head, expr_in.cell)
    /\ ExprKeeps

ExprNext == EvalPrim \/ ParseCells

ExprSpec == ExprInit /\ [][ExprNext]_vars

(***************************************************************************)
(* C12                                                                     *)
(***************************************************************************)
\* a < b for magnitudes
BigLess(a, b) ==
    \/ Len(a) < Len(b)
    \/ /\ Len(a) = Len(b)
       /\ \E i \in DOMAIN a : a[i] < b[i] /\ \A j \in 1..(i - 1) : a[j] = b[j]

\* The sum of two byte strings of the same length, one byte longer
RECURSIVE AddBytes(_, _, _)
AddBytes(x, y, carry) ==
    IF x = <<>> THEN <<carry>>
    ELSE LET sum == x[Len(x)] + y[Len(y)] + carry
         IN  AddBytes(SubSeq(x, 1, Len(x) - 1), SubSeq(y, 1, Len(y) - 1),
                      sum \div 256) \o <<sum % 256>>

RECURSIVE StripZeros(_)
StripZeros(bytes) ==
    IF bytes # <<>> /\ bytes[1] = 0 THEN StripZeros(Tail(bytes)) ELSE bytes

\* -2^(N-1) <= num < 2^N
FitsIn(num, bits) ==
    IF num.neg
    THEN ~BigLess(<<128>> \o Filled(0, 0, bits \div 8 - 1), num.mag)
    ELSE BigLess(num.mag, <<1>> \o Filled(0, 0, bits \div 8))

\* 'bytes' is the encoding of num mod 2^N: num itself, or 2^N - |num|
EncodesModulo(bytes, num, bits) ==
    /\ Len(bytes) = bits \div 8
    /\ IF num.neg
       THEN AddBytes(bytes, rjust(num.mag, bits \div 8, 0), 0)
               = <<1>> \o Filled(0, 0, bits \div 8)
       ELSE StripZeros(bytes) = num.mag

\* The width the source asks for, 0 if /bits/ is not followed by a number
AskedBits ==
    IF Len(expr_in.head) = 1 THEN 32
    ELSE IF expr_in.head[2].id = "NUM" THEN expr_in.head[2].num ELSE 0

\* The number of a wide literal cell
CellValue ==
    [neg |-> expr_in.cell.form = "paren-neg" /\ expr_in.cell.mag # <<>>,
     mag |-> expr_in.cell.mag]

\* The cell array has been parsed, and the cell had a value
CellParsed ==
    /\ expr_in.kind = "cells" /\ expr_out.st # "none"
    /\ expr_out.st \in {"ok", "DTError"}
    /\ expr_out.kind \in {"", "does not fit"}

\* C12: a cell value v in an array of N-bit elements (N one of 8, 16, 32,
\* 64; 32 without /bits/) is accepted iff -2^(N-1) <= v < 2^N, and then
\* the N/8 bytes of v mod 2^N, most significant first, are appended to the
\* value; any other v is rejected with '<v> does not fit in <N> bits'; a
\* /bits/ width that is not 8, 16, 32 or 64 is rejected.
C12_CellEncoding ==
    /\ expr_in.kind = "cells" /\ expr_out.st # "none"
         /\ AskedBits \notin {8, 16, 32, 64}
       => expr_out.st = "DTError" /\ expr_out.kind # "does not fit"
    /\ CellParsed =>
          /\ expr_out.bits = AskedBits /\ AskedBits \in {8, 16, 32, 64}
          /\ expr_in.cell.form # "expr" => expr_out.num = CellValue
          /\ (expr_out.st = "ok") = FitsIn(expr_out.num, AskedBits)
          /\ expr_out.st = "ok" =>
                /\ Len(expr_out.value)
                      = Len(expr_in.value) + AskedBits \div 8
                /\ SubSeq(expr_out.value, 1, Len(expr_in.value))
                      = expr_in.value
                /\ EncodesModulo(SubSeq(expr_out.value,
                                        Len(expr_in.value) + 1,
                                        Len(expr_out.value)),
                                 expr_out.num, AskedBits)
          /\ expr_out.st = "DTError" => expr_out.kind = "does not fit"

\* -2^63 has been encoded in a 64-bit cell
C12_Witness ==
    /\ CellParsed /\ expr_out.st = "ok" /\ AskedBits = 64
    /\ expr_out.num = [neg |-> TRUE, mag |-> Filled(128, 0, 8)]
    /\ expr_out.value = expr_in.value \o Filled(128, 0, 8)

\* 2^16 has been rejected in a 16-bit cell
C12_Rejected ==
    /\ CellParsed /\ expr_out.st = "DTError" /\ AskedBits = 16
    /\ expr_out.num = [neg |-> FALSE, mag |-> <<1, 0, 0>>]

(***************************************************************************)
(* C13                                                                     *)
(***************************************************************************)
\* Token i is a '/' or '%' whose right operand is 0, -0 or !n for n # 0
DividesByZeroAt(toks, i) ==
    /\ HasVal(toks[i], "/") \/ HasVal(toks[i], "%")
    /\ i < Len(toks)
    /\ \/ toks[i + 1] = Num(0)
       \/ /\ i + 1 < Len(toks)
          /\ \/ HasVal(toks[i + 1], "-") /\ toks[i + 2] = Num(0)
             \/ /\ HasVal(toks[i + 1], "!")
                /\ toks[i + 2].id = "NUM" /\ toks[i + 2].num # 0

\* The expression has been evaluated, and divides by zero somewhere
DividedByZero ==
    /\ expr_in.kind = "expr" /\ expr_out.st # "none"
    /\ \E i \in DOMAIN expr_in.toks : DividesByZeroAt(expr_in.toks, i)

\* C13: an expression with a division or modulo whose right operand is
\* zero, wherever it stands in the expression, ends with the parse error
\* 'division by zero' and with no other kind of failure.
C13_DivisionByZero ==
    DividedByZero =>
        expr_out.st = "DTError" /\ expr_out.kind = "division by zero"

\* (1 << -1 | 1 / 0) has ended with a ValueError
C13_Witness ==
    /\ DividedByZero
    /\ expr_in.toks = Paren(<<Num(1), Op("<<"), Op("-"), Num(1), Op("|"),
                              Num(1), Op("/"), Num(0)>>)
    /\ expr_out.st = "ValueError"

\* ((1 + 1) / 0) has ended with the parse error
C13_Reported ==
    /\ DividedByZero
    /\ expr_in.toks = Paren(Paren(<<Num(1), Op("+"), Num(1)>>)
                              \o <<Op("/"), Num(0)>>)
    /\ expr_out.st = "DTError" /\ expr_out.kind = "division by zero"

(***************************************************************************)
(* C14                                                                     *)
(***************************************************************************)
\* How loosely a binary operator binds: 1 for '||' up to 10 for '*'
Binding(op) ==
    CASE op = "||" -> 1
      [] op = "&&" -> 2
      [] op = "|" -> 3
      [] op = "^" -> 4
      [] op = "&" -> 5
      [] op \in {"==", "!="} -> 6
      [] op \in {"<", ">", "<=", ">="} -> 7
      [] op \in {"<<", ">>"} -> 8
      [] op \in {"+", "-"} -> 9
      [] op \in {"*", "/", "%"} -> 10
      [] OTHER -> 0

\* The number of parentheses open after the first n tokens
RECURSIVE Open(_, _)
Open(toks, n) ==
    IF n = 0 THEN 0
    ELSE Open(toks, n - 1)
            + (IF HasVal(toks[n], "(") THEN 1
               ELSE IF HasVal(toks[n], ")") THEN 0 - 1 ELSE 0)

\* The tokens with the given text outside every parenthesis
TopLevel(toks, texts) ==
    {i \in DOMAIN toks : /\ toks[i].id # "NUM" /\ toks[i].val \in texts
                         /\ Open(toks, i - 1) = 0}

\* The binary operators outside every parenthesis: an operator is binary
\* when it follows a number or a closing parenthesis
TopBinary(toks) ==
    {i \in DOMAIN toks :
        /\ toks[i].id # "NUM" /\ Binding(toks[i].val) > 0
        /\ Open(toks, i - 1) = 0
        /\ i > 1 /\ (toks[i - 1].id = "NUM" \/ HasVal(toks[i - 1], ")"))}

Least(set) == CHOOSE x \in set : \A y \in set : x <= y
Greatest(set) == CHOOSE x \in set : \A y \in set : x >= y

\* The ':' of the '?' at q: the first one with as many '?' as ':' between
Colons(toks, q) ==
    {c \in TopLevel(toks, {":"}) :
        /\ c > q
        /\ Cardinality({i \in TopLevel(toks, {"?"}) : q < i /\ i < c})
              = Cardinality({i \in TopLevel(toks, {":"}) : q < i /\ i < c})}

NoValue == [ok |-> FALSE, val |-> 0, top |-> ""]
RefValue(val, top) == [ok |-> TRUE, val |-> val, top |-> top]

\* a op b, the operators on the mathematical integers
Binary(op, a, b) ==
    CASE op = "||" -> RefValue(IF a # 0 \/ b # 0 THEN 1 ELSE 0, op)
      [] op = "&&" -> RefValue(IF a # 0 /\ b # 0 THEN 1 ELSE 0, op)
      [] op = "|" -> RefValue(PyOr(a, b), op)
      [] op = "^" -> RefValue(PyXor(a, b), op)
      [] op = "&" -> RefValue(PyAnd(a, b), op)
      [] op = "==" -> RefValue(IF a = b THEN 1 ELSE 0, op)
      [] op = "!=" -> RefValue(IF a # b THEN 1 ELSE 0, op)
      [] op = "<" -> RefValue(IF a < b THEN 1 ELSE 0, op)
      [] op = ">" -> RefValue(IF a > b THEN 1 ELSE 0, op)
      [] op = "<=" -> RefValue(IF a <= b THEN 1 ELSE 0, op)
      [] op = ">=" -> RefValue(IF a >= b THEN 1 ELSE 0, op)
      [] op = "<<" -> IF b < 0 THEN NoValue ELSE RefValue(a * Pow2(b), op)
      [] op = ">>" -> IF b < 0 THEN NoValue
                      ELSE RefValue(FloorDiv(a, Pow2(b)), op)
      [] op = "+" -> RefValue(a + b, op)
      [] op = "-" -> RefValue(a - b, op)
      [] op = "*" -> RefValue(a * b, op)
      [] op = "/" -> IF b = 0 THEN NoValue ELSE RefValue(FloorDiv(a, b), op)
      [] OTHER -> IF b = 0 THEN NoValue ELSE RefValue(PyMod(a, b), op)

\* The value of the full parenthesization of an expression: it is split at
\* its first '?' outside parentheses (the ternary operator groups right to
\* left), else at the last of its loosest binary operators outside
\* parentheses (they group left to right), else it is a unary operator
\* and its operand, a number, or a parenthesized expression.  Every operand
\* is evaluated.  'top' is the operator the expression was split at.
RECURSIVE Reference(_)
Reference(toks) ==
    LET n == Len(toks)
        Sub(a, b) == Reference(SubSeq(toks, a, b))
        questions == TopLevel(toks, {"?"})
        binaries == TopBinary(toks)
    IN  IF n = 0 THEN NoValue
        ELSE IF questions # {}
        THEN LET q == Least(questions)
                 colons == Colons(toks, q)
             IN  IF colons = {} THEN NoValue
                 ELSE LET c == Least(colons)
                          cond == Sub(1, q - 1)
                          then == Sub(q + 1, c - 1)
                          else == Sub(c + 1, n)
                      IN  IF ~cond.ok \/ ~then.ok \/ ~else.ok THEN NoValue
                          ELSE RefValue(IF cond.val # 0 THEN then.val
                                        ELSE else.val, "?")
        ELSE IF binaries # {}
        THEN LET loosest == Least({Binding(toks[i].val) : i \in binaries})
                 at == Greatest({i \in binaries :
                                    Binding(toks[i].val) = loosest})
                 lhs == Sub(1, at - 1)
                 rhs == Sub(at + 1, n)
             IN  IF ~lhs.ok \/ ~rhs.ok THEN NoValue
                 ELSE Binary(toks[at].val, lhs.val, rhs.val)
        ELSE IF toks[1].id # "NUM" /\ toks[1].val \in {"-", "~", "!"}
        THEN LET operand == Sub(2, n)
             IN  IF ~operand.ok THEN NoValue
                 ELSE CASE toks[1].val = "-" ->
                              RefValue(0 - operand.val, "u-")
                        [] toks[1].val = "~" ->
                              RefValue(0 - operand.val - 1, "~")
                        [] OTHER ->
                              RefValue(IF operand.val = 0 THEN 1 ELSE 0, "!")
        ELSE IF n = 1
        THEN IF toks[1].id = "NUM" THEN RefValue(toks[1].num, "")
             ELSE NoValue
        ELSE IF /\ HasVal(toks[1], "(") /\ HasVal(toks[n], ")")
                /\ \A i \in 1..(n - 1) : Open(toks, i) > 0
        THEN Sub(2, n - 1)
        ELSE NoValue

\* A parenthesized expression has been evaluated
Evaluated == expr_in.kind = "expr" /\ expr_out.st # "none"

\* C14: a parenthesized expression has a value iff its full
\* parenthesization under the binding order ternary < || < && < | < ^ < &
\* < (== !=) < (< > <= >=) < (<< >>) < (+ -) < (* / %) < unary < primary,
\* binary operators of one level grouping left to right and the ternary
\* operator right to left, has one, and that is its value; the whole
\* expression is consumed; comparison and logical operators give 0 or 1.
C14_ExpressionStructure ==
    Evaluated =>
        LET ref == Reference(expr_in.toks)
        IN  /\ (expr_out.st = "ok") = ref.ok
            /\ ref.ok =>
                  /\ expr_out.val = ref.val
                  /\ expr_out.i = Len(expr_in.toks) + 1
                  /\ ref.top \in {"||", "&&", "==", "!=", "<", ">", "<=",
                                  ">=", "!"}
                        => expr_out.val \in {0, 1}

\* (3 - 2 - 1) is 0, (1 + 2 * 3) is 7
C14_Witness ==
    /\ Evaluated /\ expr_out.st = "ok"
    /\ \/ /\ expr_in.toks = Paren(<<Num(3), Op("-"), Num(2), Op("-"),
                                    Num(1)>>)
          /\ expr_out.val = 0
       \/ /\ expr_in.toks = Paren(<<Num(1), Op("+"), Num(2), Op("*"),
                                    Num(3)>>)
          /\ expr_out.val = 7

\* (1 ? 0 ? 2 : 3 : 0) is 3
C14_Ternary ==
    /\ Evaluated /\ expr_out.st = "ok"
    /\ expr_in.toks = Paren(<<Num(1), Op("?"), Num(0), Op("?"), Num(2),
                              Op(":"), Num(3), Op(":"), Num(0)>>)
    /\ expr_out.val = 3

(***************************************************************************)
(* The steps of DT.__init__() after the source is read, and the lookups on *)
(* the finished DT.  The trees are those the parser leaves for sources     *)
(* with the nodes /a, /a/b, /b and /aliases, /omit-if-no-ref/ before any   *)
(* of them, a path reference in a property of the root, and one or two     *)
(* properties in /aliases.                                                 *)
(***************************************************************************)
\* The items of a string literal, and of the bytes between '[' and ']'
String(bytes) == [i \in 1..(Len(bytes) + 1) |->
                     IF i <= Len(bytes) THEN Byte(bytes[i]) ELSE Byte(0)]
ByteItems(bytes) == [i \in DOMAIN bytes |-> Byte(bytes[i])]

\* "/a", "/a/b", "/", "//a/", "/b", "a1", "", "/a", "/b" as two strings,
\* [2f 61], [ff 00], no value, &{/a} and &{/a/b}
AliasValues ==
    {String(<<47, 97>>), String(<<47, 97, 47, 98>>), String(<<47>>),
     String(<<47, 47, 97, 47>>), String(<<47, 98>>), String(<<49>>),
     String(<<>>), String(<<47, 97>>) \o String(<<47, 98>>),
     ByteItems(<<47, 97>>), ByteItems(<<255, 0>>), <<>>,
     <<PathRefItem(PathRef(<<"a">>))>>, <<PathRefItem(PathRef(<<"a", "b">>))>>}

AliasNames == {"a1", "a2", "A1"}

MaxAliases == 2

\* The properties of /aliases: none, one, or a1 and a second one
AliasProps ==
    {<<>>}
    \cup {<<_parse_assignment(Property(n), v)>> :
            n \in AliasNames, v \in AliasValues}
    \cup {<<_parse_assignment(Property("a1"), v1),
            _parse_assignment(Property(n), v2)>> :
            v1 \in {String(<<47, 97>>), <<PathRefItem(PathRef(<<"a">>))>>},
            n \in {m \in {"a2"} : MaxAliases >= 2}, v2 \in AliasValues}

\* The nodes next to the root and /aliases
Shapes ==
    {{}, {<<"a">>}, {<<"a">>, <<"a", "b">>}, {<<"a">>, <<"a", "b">>, <<"b">>}}

\* The property x of the root: none, &{/a} or &{/a/b}
RootProps ==
    {<<>>}
    \cup {<<_parse_assignment(Property("x"), <<PathRefItem(PathRef(path))>>)>> :
            path \in {<<"a">>, <<"a", "b">>}}

\* The tree that the parser leaves
ParsedTree(shape, with_aliases, omitted, root_props, alias_props) ==
    [path \in {<<>>} \cup shape
              \cup {p \in {<<"aliases">>} : with_aliases} |->
        [Node EXCEPT
            !.omit = path \in omitted,
            !.props = IF path = <<>> THEN root_props
                      ELSE IF path = <<"aliases">> THEN alias_props
                      ELSE <<>>,
            !.nodes =
                IF path = <<>>
                THEN SelectSeq(<<"a", "b", "aliases">>,
                               LAMBDA n : \/ <<n>> \in shape
                                          \/ n = "aliases" /\ with_aliases)
                ELSE IF path = <<"a">> /\ <<"a", "b">> \in shape
                THEN <<"b">>
                ELSE <<>>]]

\* The paths that get_node() and has_node() are called with
QueryPaths ==
    {<<>>, <<"/">>, <<"/", "a">>, <<"/", "a", "/", "b">>,
     <<"/", "/", "a", "/">>, <<"/", "a", "/", "/", "b", "/">>,
     <<"/", "b">>, <<"/", "a", "/", "a">>, <<"/", "b", "/", "a", "/", "b">>,
     <<"/", "aliases">>, <<"/", "a1">>, <<"/", "a", "b">>,
     <<"a1">>, <<"a1", "/">>, <<"a1", "/", "b">>, <<"a1", "/", "/", "b", "/">>,
     <<"a1", "/", "a", "/", "b">>, <<"a1", "/", "b", "/", "b">>,
     <<"a2">>, <<"a2", "/", "b">>, <<"a">>, <<"a", "/", "b">>,
     <<"a1", "a">>, <<"A1">>}

PostInit ==
    /\ \E shape \in Shapes, with_aliases \in BOOLEAN :
          \E omitted \in SUBSET ((shape \ {<<"b">>})
                                    \cup {p \in {<<"aliases">>} : with_aliases}),
             root_props \in RootProps,
             alias_props \in {ps \in AliasProps : with_aliases \/ ps = <<>>} :
                tree = ParsedTree(shape, with_aliases, omitted, root_props,
                                  alias_props)
    /\ stack = <<>> /\ toplabel = <<>> /\ pc = "register_phandles"
    /\ err = NoError /\ memreserves = <<>> /\ phandle2node = <<>>
    /\ alias2node = <<>> /\ label2node = <<>> /\ label2prop = <<>>
    /\ label2prop_offset = <<>> /\ pruned = <<>> /\ discarded = {}
    /\ last = Stmt("eof", <<>>, "", NoRef, <<>>)
    /\ budget = [opens |-> 0, props |-> 0, dirs |-> 0]
    /\ input = [free |-> TRUE, rest |-> <<>>]
    /\ first = <<>>
    /\ query = [call |-> "none", path |-> <<>>, result |-> Found(<<>>)]
    /\ MergeIdle /\ TransIdle /\ NexusIdle /\ BuildIdle /\ ExprIdle /\ LexIdle
    /\ DeviceIdle

QueryKeeps ==
    UNCHANGED <<parservars, mergevars, transvars, nexusvars, buildvars,
                exprvars, lexvars, devicevars>>

\* dt.get_node(path) on the DT that the constructor returned
GetNode(path) ==
    /\ pc = "done"
    /\ query' = [call |-> "get_node", path |-> path,
                 result |-> Lookup(tree, pruned, alias2node, FALSE, path)]
    /\ QueryKeeps

\* dt.has_node(path): True unless get_node() raises a DTError
HasNode(path) ==
    /\ pc = "done"
    /\ query' = [call |-> "has_node", path |-> path,
                 result |->
                    IF Lookup(tree, pruned, alias2node, FALSE, path).ok
                    THEN Found(<<>>) ELSE NotFound("", 0)]
    /\ QueryKeeps

PostNext ==
    \/ RegisterPhandles \/ FixupProps \/ RegisterAliases
    \/ RemoveUnreferenced \/ RegisterLabels
    \/ \E path \in QueryPaths : GetNode(path)
    \/ \E path \in QueryPaths : HasNode(path)

PostSpec == PostInit /\ [][PostNext]_vars

(***************************************************************************)
(* C15                                                                     *)
(***************************************************************************)
\* The names of the components of a path string, its "/" left out
ComponentNames(str) == SelectSeq(str, LAMBDA piece : piece # "/")

\* The string is an absolute path of a node of the tree: it starts with
\* "/", no two names touch, and the names lead to a node
IsNodePath(t, str) ==
    /\ str # <<>> /\ str[1] = "/"
    /\ \A i \in 1..(Len(str) - 1) : str[i] = "/" \/ str[i + 1] = "/"
    /\ ComponentNames(str) \in DOMAIN t

\* The property is a good alias: its name has characters of [0-9a-z-] only
\* and its value is one NUL-terminated string, the path of a node
GoodAlias(t, prop) ==
    /\ prop.name \in {"a1", "a2"}
    /\ prop.value # <<>> /\ prop.value[Len(prop.value)] = 0
    /\ \A i \in 1..(Len(prop.value) - 1) :
          prop.value[i] # 0 /\ prop.value[i] < 128
    /\ IsNodePath(t, [i \in 1..(Len(prop.value) - 1) |-> Decode(prop.value[i])])

AliasesNode(t) == IF <<"aliases">> \in DOMAIN t THEN t[<<"aliases">>].props
                  ELSE <<>>

\* alias2node has one entry per property of /aliases, the node at the path
\* that is the value of the property
AliasesRegistered ==
    /\ DOMAIN alias2node = {prop.name : prop \in Range(AliasesNode(tree))}
    /\ \A prop \in Range(AliasesNode(tree)) :
          /\ GoodAlias(tree, prop)
          /\ alias2node[prop.name]
                = ComponentNames([i \in 1..(Len(prop.value) - 1) |->
                                     Decode(prop.value[i])])

\* _register_aliases() fails iff a property of /aliases is not a good alias
AliasesChecked ==
    pc = "register_aliases" =>
        IF \A prop \in Range(AliasesNode(tree)) : GoodAlias(tree, prop)
        THEN pc' = "remove_unreferenced"
        ELSE pc' = "DTError" /\ err'.stage = "register_aliases"

\* C15: after a successful parse alias2node has exactly one entry per
\* property of the /aliases node, and none when there is no such node, and
\* maps the name of the property to the node at the absolute path that is
\* its value; the parse fails if a name has a character outside [0-9a-z-],
\* if a value is not one NUL-terminated UTF-8 string, or if the path does
\* not resolve, and a value that is the name of another alias does not
\* resolve.
C15_AliasRegistration ==
    /\ [](pc = "done" => AliasesRegistered)
    /\ [][AliasesChecked]_vars

\* The parse succeeded, and alias a1 is a node that is not in the tree
C15_Witness ==
    /\ pc = "done" /\ "a1" \in DOMAIN alias2node
    /\ alias2node["a1"] \notin DOMAIN tree
    /\ <<"aliases">> \in DOMAIN tree

\* The parse succeeded, there is no /aliases node and alias2node has an
\* entry
C15_NoAliasesNode ==
    pc = "done" /\ <<"aliases">> \notin DOMAIN tree /\ alias2node # <<>>

\* Two aliases were registered, and the parse succeeded
C15_Registered ==
    /\ pc = "done" /\ AliasesRegistered
    /\ DOMAIN alias2node = {"a1", "a2"}
    /\ alias2node["a2"] = <<"a", "b">>

\* The checks of _register_aliases() alone
C15_Checks == [][AliasesChecked]_vars

(***************************************************************************)
(* C16                                                                     *)
(***************************************************************************)
\* The non-empty components of a path string, in order
RECURSIVE NonEmptyComponents(_)
NonEmptyComponents(str) ==
    IF str = <<>> THEN <<>>
    ELSE IF Head(str) = "/" THEN NonEmptyComponents(Tail(str))
    ELSE LET n == IF \E i \in DOMAIN str : str[i] = "/"
                  THEN (CHOOSE i \in DOMAIN str :
                           str[i] = "/" /\ \A j \in 1..i : j = i \/ str[j] # "/")
                       - 1
                  ELSE Len(str)
         IN  <<SubSeq(str, 1, n)>>
             \o NonEmptyComponents(SubSeq(str, n + 1, Len(str)))

\* The component is the name of a child of the node 'cur'
IsChild(cur, component) ==
    /\ Len(component) = 1
    /\ component[1] \in Range(Obj(tree, pruned, cur).nodes)

\* How many of the components from the k-th on can be followed from 'cur'
RECURSIVE Followed(_, _, _)
Followed(cur, components, k) ==
    IF k > Len(components) \/ ~IsChild(cur, components[k]) THEN 0
    ELSE 1 + Followed(Append(cur, components[k][1]), components, k + 1)

\* The path has a registered alias as its first component
StartsWithAlias(str) ==
    /\ NonEmptyComponents(str) # <<>>
    /\ Len(NonEmptyComponents(str)[1]) = 1
    /\ NonEmptyComponents(str)[1][1] \in DOMAIN alias2node

IsAbsolute(str) == str # <<>> /\ str[1] = "/"

\* The node the walk starts from, and the components to follow from it
StartOf(str) ==
    IF IsAbsolute(str) THEN <<>> ELSE alias2node[NonEmptyComponents(str)[1][1]]

ToFollow(str) ==
    IF IsAbsolute(str) THEN NonEmptyComponents(str)
    ELSE Tail(NonEmptyComponents(str))

\* What the claim has get_node(str) return or raise
Expected(str) ==
    IF ~IsAbsolute(str) /\ ~StartsWithAlias(str)
    THEN [ok |-> FALSE, path |-> <<>>, kind |-> "no alias found", index |-> 0]
    ELSE LET n == Followed(StartOf(str), ToFollow(str), 1)
         IN  IF n = Len(ToFollow(str))
             THEN [ok |-> TRUE,
                   path |-> StartOf(str)
                               \o [i \in 1..n |-> ToFollow(str)[i][1]],
                   kind |-> "", index |-> 0]
             ELSE [ok |-> FALSE, path |-> <<>>, kind |-> "does not exist",
                   index |-> Len(NonEmptyComponents(str))
                                - Len(ToFollow(str)) + n + 1]

\* The nodes in the tree are those that are reached from the root by the
\* names of children
TreeIsWalkable ==
    \A path \in DOMAIN tree :
        \A name \in {"a", "b", "aliases"} :
            (Append(path, name) \in DOMAIN tree)
               = (name \in Range(tree[path].nodes))

\* C16: get_node(path) returns, for a path starting with '/', the node
\* reached from the root by the non-empty components, and for any other
\* path the node reached from the node of the alias that is its first
\* component; a missing component raises a DTError with the 1-based index
\* of the component, an unknown alias raises a DTError; has_node(path) is
\* true exactly when get_node(path) does not raise; neither changes the
\* tree or the indexes.
C16_GetNode ==
    /\ [](pc = "done" => TreeIsWalkable)
    /\ [](query.call = "get_node" =>
             /\ query.result.ok = Expected(query.path).ok
             /\ query.result.path = Expected(query.path).path
             /\ query.result.kind = Expected(query.path).kind
             /\ query.result.component_i = Expected(query.path).index
             /\ (IsAbsolute(query.path) /\ query.result.ok)
                   => query.result.path \in DOMAIN tree)
    /\ [](query.call = "has_node" =>
             query.result.ok = Expected(query.path).ok)
    /\ [][pc = "done" => UNCHANGED <<tree, indexvars, pruned>>]_vars

\* get_node("a1//b/") returned /a/b
C16_Witness ==
    /\ query.call = "get_node" /\ query.result.ok
    /\ query.path = <<"a1", "/", "/", "b", "/">>
    /\ query.result.path = <<"a", "b">>
    /\ alias2node["a1"] = <<"a">>

\* get_node("a1/b/b") raised a DTError for component 3
C16_Missing ==
    /\ query.call = "get_node" /\ ~query.result.ok
    /\ query.path = <<"a1", "/", "b", "/", "b">>
    /\ query.result.component_i = 3

\* has_node("a2") is false while a1 is an alias
C16_UnknownAlias ==
    /\ query.call = "has_node" /\ ~query.result.ok
    /\ query.path = <<"a2">> /\ DOMAIN alias2node = {"a1"}

(***************************************************************************)
(* C17                                                                     *)
(***************************************************************************)
\* The token that the step has returned
Produced == token_stream'[Len(token_stream')]

\* The token is the punctuation 'text'
IsPunctuation(tok, text) == tok.id = "MISC" /\ tok.val = text

\* The mode after a token, as the table of modes has it
ModeAfter(mode, tok) ==
    IF \/ IsPunctuation(tok, "{") \/ IsPunctuation(tok, ";")
       \/ tok.id \in {"DEL_NODE", "DEL_PROP", "OMIT_IF_NO_REF"}
    THEN _EXPECT_PROPNODENAME
    ELSE IF IsPunctuation(tok, "[") THEN _EXPECT_BYTE
    ELSE IF IsPunctuation(tok, "]") \/ tok.id \in {"MEMRESERVE", "BITS"}
    THEN _DEFAULT
    ELSE IF tok.id = "PROPNODENAME" THEN _DEFAULT
    ELSE mode

\* A step that returns a token
ReturnsToken == token_stream' # token_stream

\* C17: the lexer is in one of the modes default, expect-name and
\* expect-byte, and starts in default; '{', ';', /delete-node/,
\* /delete-property/ and /omit-if-no-ref/ put it in expect-name, '[' in
\* expect-byte, ']', /memreserve/ and /bits/ in default, a name token in
\* default, and no other token changes the mode; a name token is returned
\* in expect-name only, a byte token in expect-byte only and a number token
\* in default only.
C17_LexerModes ==
    /\ [](_lexer_state \in {_DEFAULT, _EXPECT_PROPNODENAME, _EXPECT_BYTE})
    /\ [](token_stream = <<>> => _lexer_state = _DEFAULT)
    /\ [][IF ReturnsToken
          THEN /\ _lexer_state' = ModeAfter(_lexer_state, Produced)
               /\ Produced.id = "PROPNODENAME"
                     => _lexer_state = _EXPECT_PROPNODENAME
               /\ Produced.id = "BYTE" => _lexer_state = _EXPECT_BYTE
               /\ Produced.id = "NUM" => _lexer_state = _DEFAULT
          ELSE _lexer_state' = _lexer_state]_vars

\* The string "[" was returned in default mode, and the lexer expects a
\* byte
C17_Witness ==
    /\ token_stream # <<>>
    /\ token_stream[Len(token_stream)] = _Token("STRING", "[")
    /\ _lexer_state = _EXPECT_BYTE
    /\ \A i \in DOMAIN token_stream : ~IsPunctuation(token_stream[i], "[")

\* '[' and a byte were returned
C17_Byte ==
    /\ Len(token_stream) >= 2
    /\ IsPunctuation(token_stream[Len(token_stream) - 1], "[")
    /\ token_stream[Len(token_stream)].id = "BYTE"
    /\ _lexer_state = _EXPECT_BYTE


\* The table of modes holds for every token that is not a string
C17_ExceptStrings ==
    [][ReturnsToken /\ Produced.id # "STRING" =>
          /\ _lexer_state' = ModeAfter(_lexer_state, Produced)
          /\ Produced.id = "PROPNODENAME"
                => _lexer_state = _EXPECT_PROPNODENAME
          /\ Produced.id = "BYTE" => _lexer_state = _EXPECT_BYTE
          /\ Produced.id = "NUM" => _lexer_state = _DEFAULT]_vars

(***************************************************************************)
(* C18                                                                     *)
(***************************************************************************)
\* The file that an /include/ of 'name' in 'file' opens
Included(file, name) ==
    IF join(dirname(file), name) \in DOMAIN fs
    THEN [ok |-> TRUE, name |-> join(dirname(file), name)]
    ELSE OpenFrom(name, 1)

\* The lexemes of 'file' from the i-th on, every /include/ replaced by the
\* lexemes of the file it opens; 'cut' if an /include/ opens no file or the
\* files are nested deeper than 'depth'
RECURSIVE Spliced(_, _, _)
Spliced(file, i, depth) ==
    IF i > Len(fs[file]) THEN [lexemes |-> <<>>, cut |-> FALSE]
    ELSE IF fs[file][i].lx # "include"
    THEN LET rest == Spliced(file, i + 1, depth)
         IN  [rest EXCEPT !.lexemes = <<fs[file][i]>> \o @]
    ELSE IF depth = 0 \/ ~Included(file, fs[file][i].name).ok
    THEN [lexemes |-> <<>>, cut |-> TRUE]
    ELSE LET inner == Spliced(Included(file, fs[file][i].name).name, 1,
                              depth - 1)
         IN  IF inner.cut THEN inner
             ELSE LET rest == Spliced(file, i + 1, depth)
                  IN  [rest EXCEPT !.lexemes = inner.lexemes \o @]

\* The tokens of a sequence of lexemes without /include/, up to the first
\* that is no token
RECURSIVE Tokens(_, _, _)
Tokens(lexemes, i, mode) ==
    IF i > Len(lexemes) THEN <<>>
    ELSE LET lex == lexemes[i]
             id == CASE lex.lx = "token" -> lex.id
                     [] mode = _DEFAULT /\ _num_re(lex.text) -> "NUM"
                     [] mode = _EXPECT_PROPNODENAME
                           /\ _propnodename_re(lex.text) -> "PROPNODENAME"
                     [] mode = _EXPECT_BYTE /\ _byte_re(lex.text) -> "BYTE"
                     [] _misc_re(lex.text) -> "MISC"
                     [] OTHER -> "BAD"
         IN  IF lex.lx = "skip" THEN Tokens(lexemes, i + 1, mode)
             ELSE IF id = "BAD" THEN <<_Token("BAD", "<unknown token>")>>
             ELSE <<_Token(id, lex.text)>>
                  \o Tokens(lexemes, i + 1,
                            StateAfter(IF id = "PROPNODENAME" THEN _DEFAULT
                                       ELSE mode, id, lex.text))

\* The file given to DT()
TopFile == IF _filestack = <<>> THEN self_filename ELSE _filestack[1].filename

\* The token stream of the top file with the included files spliced in,
\* ended by the end-of-file token if nothing cuts it short
SplicedStream ==
    LET flat == Spliced(TopFile, 1, MaxIncludeDepth)
        tokens == Tokens(flat.lexemes, 1, _DEFAULT)
    IN  IF flat.cut \/ (tokens # <<>> /\ tokens[Len(tokens)].id = "BAD")
        THEN tokens
        ELSE Append(tokens, _Token("EOF", "<EOF>"))

\* The line of the position 'pos' in a file
RECURSIVE LineAt(_, _)
LineAt(contents, pos) ==
    IF pos = 0 THEN 1 ELSE LineAt(contents, pos - 1) + contents[pos].nl

\* The lexer is in the file DT.filename, at the line of its position
InCurrentFile ==
    /\ _file_contents = fs[self_filename]
    /\ _lineno = LineAt(_file_contents, _tok_end_i)

\* Every stack entry is a file at the position behind an /include/
\* directive, with the line of the directive
EntriesAtDirectives ==
    \A k \in DOMAIN _filestack :
        LET entry == _filestack[k]
        IN  /\ entry.file_contents = fs[entry.filename]
            /\ entry.tok_end_i \in DOMAIN entry.file_contents
            /\ entry.file_contents[entry.tok_end_i].lx = "include"
            /\ entry.lineno = LineAt(entry.file_contents, entry.tok_end_i)

\* An exhausted included file is left for the top entry of the stack, which
\* is behind the directive that opened the file
LeavesToIncluder ==
    (InNextToken /\ AtEnd /\ _filestack # <<>>) =>
        LET top == _filestack[Len(_filestack)]
        IN  /\ _filestack' = SubSeq(_filestack, 1, Len(_filestack) - 1)
            /\ self_filename' = top.filename /\ _lineno' = top.lineno
            /\ _file_contents' = top.file_contents
            /\ _tok_end_i' = top.tok_end_i
            /\ Included(top.filename,
                        top.file_contents[top.tok_end_i].name).name
                  = self_filename
            /\ token_stream' = token_stream

\* C18: the end-of-file token is returned only with an empty include stack;
\* at the end of an included file the lexer pops one entry and is back in
\* the including file with its name, line, buffer and position behind the
\* /include/ directive; the token stream is that of the including file with
\* the tokens of the included file in the place of the directive; an error
\* is reported with the name and line of the file the lexer is in.
C18_IncludeStack ==
    /\ [](InNextToken => InCurrentFile /\ EntriesAtDirectives)
    /\ [](IsPrefix(token_stream, SplicedStream))
    /\ [](lexpc.st = "EOF" => token_stream = SplicedStream /\ _filestack = <<>>)
    /\ []((lexpc.st = "DTError" /\ lexpc.kind = "unknown token") =>
             /\ lexpc.file = self_filename
             /\ lexpc.line = LineAt(fs[self_filename], _tok_end_i)
             /\ fs[self_filename][_tok_end_i + 1].lx = "text")
    /\ [][LeavesToIncluder]_vars
    /\ [][(ReturnsToken /\ Produced.id = "EOF") => _filestack = <<>>]_vars

\* b.dtsi was included on the second line of a.dts and left again, and the
\* end of a.dts was reached with the tokens of both files
C18_Witness ==
    /\ lexpc.st = "EOF" /\ self_filename = FileA /\ _lineno = 2
    /\ fs[FileA] = <<Text("10"), Include(FileB, 1), Text("10")>>
    /\ FileB \in DOMAIN fs /\ fs[FileB] = <<Skip(1), Text("10")>>
    /\ token_stream = <<_Token("NUM", "10"), _Token("NUM", "10"),
                        _Token("NUM", "10"), _Token("EOF", "<EOF>")>>

(***************************************************************************)
(* C19                                                                     *)
(***************************************************************************)
\* The properties whose markers are phandle references only, as
\* <<path, index of the property>>
PhandleRefProps(t) ==
    {<<path, i>> \in UNION {{<<p, j>> : j \in DOMAIN t[p].props} :
                               p \in DOMAIN t} :
        /\ t[path].props[i].markers # <<>>
        /\ \A m \in Range(t[path].props[i].markers) : m.type = _PHANDLE}

\* The nodes that the phandle references of the tree are to
PhandleTargets(t) ==
    {_resolve_ref(t, m.ref).path :
        m \in UNION {Range(t[pi[1]].props[pi[2]].markers) :
                        pi \in PhandleRefProps(t)}}

\* The node has a phandle of its own before the references are patched: a
\* 'phandle' property that is not a reference to the node itself
HasOwnPhandle(t, path) ==
    /\ HasProp(t[path], "phandle")
    /\ GetProp(t[path], "phandle").value # <<0, 0, 0, 0>>

\* _fixup_props() has patched the phandle references
PatchesPhandles ==
    (pc = "fixup_props" /\ pc' = "register_aliases") =>
        /\ \A path \in PhandleTargets(tree) :
              /\ HasProp(tree'[path], "phandle")
              /\ Len(GetProp(tree'[path], "phandle").value) = 4
              /\ HasOwnPhandle(tree, path) =>
                    GetProp(tree'[path], "phandle").value
                       = GetProp(tree[path], "phandle").value
              /\ ~HasOwnPhandle(tree, path) =>
                    LET new == to_num(GetProp(tree'[path], "phandle").value)
                    IN  /\ new > 0
                        /\ new \notin DOMAIN phandle2node
                        /\ phandle2node'[new] = path
                        /\ \A smaller \in 1..(new - 1) :
                              smaller \in DOMAIN phandle2node'
        /\ \A pi \in PhandleRefProps(tree) :
              LET before == tree[pi[1]].props[pi[2]]
                  after == tree'[pi[1]].props[pi[2]]
              IN  /\ Len(after.value) = Len(before.value)
                  /\ \A m \in Range(before.markers) :
                        SubSeq(after.value, m.pos + 1, m.pos + 4)
                           = GetProp(tree'[_resolve_ref(tree, m.ref).path],
                                     "phandle").value

\* C19: a node without a phandle that a phandle reference is to gets the
\* smallest positive integer that is the phandle of no node, given or
\* allocated before; a node that has a phandle keeps it; every phandle
\* reference to a node is patched with the same 4 bytes, the phandle of
\* the node.
C19_PhandleAllocation == [][PatchesPhandles]_vars

\* A phandle reference has been patched with the phandle of a node whose
\* 'phandle' property is longer than 4 bytes
C19_Witness ==
    /\ pc = "register_aliases"
    /\ \E path \in DOMAIN tree :
          /\ HasProp(tree[path], "phandle")
          /\ Len(GetProp(tree[path], "phandle").value) > 4
          /\ \E other \in DOMAIN tree \ {path} :
                /\ HasProp(tree[other], "x")
                /\ GetProp(tree[other], "x").value
                      = GetProp(tree[path], "phandle").value


\* No 'phandle' property has a path reference in its value
NoPathInPhandle(t) ==
    \A path \in WithPhandle(t) :
        \A m \in Range(GetProp(t[path], "phandle").markers) : m.type # _PATH

\* The phandles are allocated and patched as C19 has it when no 'phandle'
\* property has a path reference in its value
C19_WithoutPathInPhandle == [][NoPathInPhandle(tree) => PatchesPhandles]_vars

\* Two nodes have been given the phandles 1 and 2, or 2 next to an
\* explicit 1
C19_Allocated ==
    /\ pc = "register_aliases" /\ NoPathInPhandle(tree)
    /\ DOMAIN phandle2node = {1, 2}
    /\ \E path \in DOMAIN tree :
          /\ HasProp(tree[path], "x")
          /\ GetProp(tree[path], "x").value \in {to_bytes4(1), to_bytes4(2)}

(***************************************************************************)
(* C20                                                                     *)
(***************************************************************************)
\* The nodes that the path and phandle references left in the property
\* values are to
ReferenceTargets(t) ==
    {_resolve_ref(t, ref).path : ref \in SurvivingRefs(t)}

\* _remove_unreferenced() has run to its end
Prunes == pc = "remove_unreferenced" /\ pc' = "register_labels"

\* A flagged node that no reference is to is deleted with its subtree, and
\* a flagged node that a reference is to stays
PrunesUnreferenced ==
    Prunes =>
        \A path \in DOMAIN tree :
            tree[path].omit =>
                IF path \in ReferenceTargets(tree)
                THEN path \in DOMAIN tree'
                ELSE \A below \in DOMAIN tree :
                        IsPrefix(path, below) => below \notin DOMAIN tree'

\* C20: after the post-processing every node flagged /omit-if-no-ref/ that
\* no path or phandle reference resolved by _fixup_props() is to has been
\* deleted with its subtree, and a flagged node that such a reference is
\* to is not deleted by the pruning.
C20_Pruning ==
    /\ [][PrunesUnreferenced]_vars
    /\ [](pc = "remove_unreferenced" =>
             \A path \in DOMAIN tree :
                 tree[path].referenced = (path \in ReferenceTargets(tree)))

\* /a/b was flagged and referenced, and was deleted with the flagged and
\* unreferenced /a
C20_Witness ==
    /\ pc = "done" /\ <<"a", "b">> \in DOMAIN pruned
    /\ pruned[<<"a", "b">>].omit /\ pruned[<<"a", "b">>].referenced
    /\ pruned[<<"a">>].omit /\ ~pruned[<<"a">>].referenced

\* The same for the flagged nodes that are not below a flagged node that
\* no reference is to
C20_OutsidePrunedSubtrees ==
    [][Prunes =>
          \A path \in DOMAIN tree :
              (/\ tree[path].omit
               /\ \A above \in DOMAIN tree :
                     (IsPrefix(above, path) /\ above # path /\ tree[above].omit)
                        => above \in ReferenceTargets(tree))
              => IF path \in ReferenceTargets(tree)
                 THEN path \in DOMAIN tree'
                 ELSE \A below \in DOMAIN tree :
                         IsPrefix(path, below) => below \notin DOMAIN tree']_vars

\* /a was flagged and referenced and has stayed, /aliases was flagged and
\* is gone
C20_Kept ==
    /\ pc = "done" /\ <<"a">> \in DOMAIN tree
    /\ tree[<<"a">>].omit /\ tree[<<"a">>].referenced
    /\ DOMAIN pruned = {<<"aliases">>}


(***************************************************************************)
(*                  References in values that were dropped                 *)
(***************************************************************************)
\* The references of the items of a value, in the order of the items
ItemRefs(items) ==
    LET refs == SelectSeq(items, LAMBDA it : it.t \in {"phref", "pathref"})
    IN  [k \in DOMAIN refs |-> refs[k].ref]

\* The references a property holds, in the order of its markers
MarkerRefs(prop) ==
    LET refs == SelectSeq(prop.markers, LAMBDA m : m.type # _LABEL)
    IN  [k \in DOMAIN refs |-> refs[k].ref]

\* The nodes the references of the values of the tree resolve to, and those
\* its phandle references resolve to
RefTargets(t) ==
    {_resolve_ref(t, r).path :
        r \in {q \in SurvivingRefs(t) : _resolve_ref(t, q).ok}}

PhandleRefs(t) ==
    UNION {UNION {{t[path].props[j].markers[k].ref :
                      k \in {k \in DOMAIN t[path].props[j].markers :
                                t[path].props[j].markers[k].type = _PHANDLE}} :
                  j \in DOMAIN t[path].props} :
           path \in DOMAIN t}

PhandleRefTargets(t) ==
    {_resolve_ref(t, r).path :
        r \in {q \in PhandleRefs(t) : _resolve_ref(t, q).ok}}

\* An assignment leaves in the property the references of the new value
\* only
AssignReplaces ==
    (pc = "parse" /\ pc' = "parse" /\ last'.kind = "assign" /\ stack # <<>>)
        => /\ HasProp(tree'[Cur], last'.name)
           /\ MarkerRefs(GetProp(tree'[Cur], last'.name))
                 = ItemRefs(last'.value)

\* '/delete-property/' leaves no property, and so no reference of it
DeletePropertyRemoves ==
    (pc = "parse" /\ pc' = "parse" /\ last'.kind = "delete-property"
        /\ stack # <<>>)
        => ~HasProp(tree'[Cur], last'.name)

\* '/delete-node/' leaves no node of the subtree, and so no reference of it
DeleteNodeRemoves ==
    (pc = "parse" /\ pc' = "parse" /\ last'.kind = "delete-node"
        /\ stack # <<>>)
        => \A path \in DOMAIN tree' : ~IsPrefix(Append(Cur, last'.name), path)

\* While the source is read no reference is resolved: a statement on a
\* property or a child node never fails
ParsingAcceptsReferences ==
    (pc = "parse"
        /\ last'.kind \in {"assign", "empty", "delete-property", "delete-node"})
        => pc' = "parse"

\* _fixup_props() marks and gives a phandle to the targets of the
\* references the tree holds, and fails on one of those only
FixupFollowsTree ==
    pc = "fixup_props"
        => /\ pc' = "register_aliases"
              => /\ \A path \in DOMAIN tree' :
                       tree'[path].referenced => path \in RefTargets(tree)
                 /\ WithPhandle(tree') \ WithPhandle(tree)
                       \subseteq PhandleRefTargets(tree)
                 /\ \A v \in DOMAIN phandle2node' \ DOMAIN phandle2node :
                       phandle2node'[v] \in PhandleRefTargets(tree)
           /\ pc' = "DTError"
              => \E r \in SurvivingRefs(tree) : Dangling(tree, r)

\* The steps after _fixup_props() mark no node and allocate no phandle
LaterStepsKeep ==
    pc \in {"register_aliases", "remove_unreferenced", "register_labels"}
        => /\ phandle2node' = phandle2node
           /\ \A path \in DOMAIN tree' :
                 /\ path \in DOMAIN tree
                 /\ tree'[path].referenced = tree[path].referenced
                 /\ tree'[path].props = tree[path].props

\* Once _fixup_props() has run, a dropped reference that no value of the
\* tree repeats has left nothing on its target
DroppedLeftNothing ==
    pc \in {"register_aliases", "remove_unreferenced"}
        => \A r \in discarded :
              LET node == _resolve_ref(tree, r)
              IN  (node.ok /\ node.path \notin RefTargets(tree))
                     => /\ ~tree[node.path].referenced
                        /\ node.path \in WithPhandle(tree)
                              => Explicit(tree, node.path)

\* C21: a path or phandle reference in a value that a later assignment to
\* the property replaced, or whose property '/delete-property/' removed, or
\* whose node '/delete-node/' removed, has no effect on the finished tree:
\* it allocates no phandle, does not mark its target as referenced, and
\* raises no undefined-label error.
C21_DroppedReferences ==
    /\ [][AssignReplaces /\ DeletePropertyRemoves /\ DeleteNodeRemoves
             /\ ParsingAcceptsReferences /\ FixupFollowsTree
             /\ LaterStepsKeep]_vars
    /\ []DroppedLeftNothing
    /\ [](pc = "parse"
             => /\ \A path \in DOMAIN tree : ~tree[path].referenced
                /\ phandle2node = <<>>)

\* The parse has succeeded although a phandle to the undefined label l1 was
\* dropped
C21_Witness ==
    /\ pc = "done"
    /\ LabelRef("l1") \in discarded
    /\ Dangling(tree, LabelRef("l1"))

\* The parse has succeeded, a dropped reference named the node /a, and /a
\* is in the finished tree, not marked and without a phandle
C21_TargetUntouched ==
    /\ pc = "done"
    /\ PathRef(<<"a">>) \in discarded
    /\ <<"a">> \in DOMAIN tree
    /\ ~tree[<<"a">>].referenced
    /\ <<"a">> \notin WithPhandle(tree)


(***************************************************************************)
(*                      Directives aimed at the root                       *)
(***************************************************************************)
\* The statement is '/delete-node/ &ref;' or '/omit-if-no-ref/ &ref;' with a
\* reference that resolves to the root
AimedAtRoot(t, st) ==
    /\ st.kind \in {"delete-node-ref", "omit-if-no-ref"}
    /\ <<>> \in DOMAIN t
    /\ _resolve_ref(t, st.ref).ok
    /\ _resolve_ref(t, st.ref).path = <<>>

\* Reading the directive is accepted or refused with a DTError
RootDirectiveRead ==
    (pc = "parse" /\ last' # last /\ AimedAtRoot(tree, last'))
        => pc' \in {"parse", "DTError"}

\* Once the root is marked by '/omit-if-no-ref/', the constructor still
\* ends with a tree that has a root or with a DTError
RootMarkedEnds ==
    (<<>> \in DOMAIN tree /\ tree[<<>>].omit) => pc' # "crash"

\* C27: '/delete-node/' or '/omit-if-no-ref/' applied to a reference that
\* resolves to the root node never ends in an unhandled failure: the parse
\* completes with a tree that still has a root node or is rejected with a
\* DTError.
C27_RootDirectives ==
    /\ [][RootDirectiveRead /\ RootMarkedEnds]_vars
    /\ [](pc = "done" => <<>> \in DOMAIN tree)

\* '/delete-node/ &{/};' has been read while the tree had a root, and the
\* constructor has ended in an AttributeError
C27_Witness ==
    /\ pc = "crash" /\ err = AttributeError("parse")
    /\ last.kind = "delete-node-ref" /\ last.ref = PathRef(<<>>)
    /\ <<>> \in DOMAIN tree

\* '/omit-if-no-ref/ &{/};' marked the root, no value refers to the root,
\* and _remove_unreferenced() has ended in an AttributeError
C27_OmittedRoot ==
    /\ pc = "crash" /\ err = AttributeError("remove_unreferenced")
    /\ tree[<<>>].omit /\ ~tree[<<>>].referenced


(***************************************************************************)
(*                    The indexes and the finished tree                    *)
(***************************************************************************)
\* The nodes that an index holds and the finished tree does not
NotInTree(index) == {v \in DOMAIN index : index[v] \notin DOMAIN tree}

\* C26: after a successful parse, every node stored in alias2node,
\* phandle2node and label2node is part of the finished tree; a node removed
\* by '/omit-if-no-ref/' pruning has no entry left in any of these indexes.
C26_IndexConsistency ==
    pc = "done"
        => /\ NotInTree(alias2node) = {}
           /\ NotInTree(phandle2node) = {}
           /\ NotInTree(label2node) = {}

\* The parse has succeeded, and phandle2node maps the phandle 1, written out
\* in the source, to the node /a that pruning took from the tree
C26_Witness ==
    /\ pc = "done"
    /\ 1 \in NotInTree(phandle2node)
    /\ phandle2node[1] = <<"a">>
    /\ <<"a">> \in DOMAIN pruned
    /\ Explicit(pruned, <<"a">>)

\* The parse has succeeded, and alias2node maps an alias to a node that
\* pruning took from the tree
C26_PrunedAlias ==
    /\ pc = "done"
    /\ \E alias \in NotInTree(alias2node) : alias2node[alias] \in DOMAIN pruned


(***************************************************************************)
(*                    Evaluation ends in a parse error                     *)
(***************************************************************************)
\* The parenthesized expression has been evaluated
ExpressionEvaluated == expr_in.kind = "expr" /\ expr_out.st # "none"

\* The token at i is '<<' or '>>' and its right operand is a negated literal
\* that is not zero
ShiftsByNegativeAt(toks, i) ==
    /\ HasVal(toks[i], "<<") \/ HasVal(toks[i], ">>")
    /\ i + 1 < Len(toks)
    /\ HasVal(toks[i + 1], "-")
    /\ toks[i + 2].id = "NUM" /\ toks[i + 2].num # 0

\* C29: the evaluation of a parenthesized expression over integer literals
\* returns an integer or raises a parse error, which carries file, line and
\* column; this includes '<<' and '>>' with a negative right operand.
C29_EvaluationTotal ==
    ExpressionEvaluated => expr_out.st \in {"ok", "DTError"}

\* (1 >> -1) has ended with a ValueError, which is not a parse error
C29_Witness ==
    /\ ExpressionEvaluated
    /\ expr_in.toks = Paren(<<Num(1), Op(">>"), Op("-"), Num(1)>>)
    /\ ShiftsByNegativeAt(expr_in.toks, 3)
    /\ expr_out.st = "ValueError"


(***************************************************************************)
(*                      Nexus resolution: how it ends                      *)
(***************************************************************************)
\* The receivers of the running calls of _map(), outermost first
Receivers ==
    [i \in 1..(Len(nxstack) - 1) |-> nxstack[i + 1].parent]

\* A receiver is visited again
Revisited ==
    \E i, j \in DOMAIN Receivers : i < j /\ Receivers[i] = Receivers[j]

\* C24: nexus resolution terminates: following matched map rows from
\* receiver to receiver ends at a terminal controller or with an EDTError,
\* also in trees whose gpio-map tables route a specifier back to a receiver
\* visited earlier.
C24_NexusTerminates == nxres.st \in {"none", "ret", "EDTError"}

\* The map of nexus2 has routed the specifier back to nexus, and the calls
\* of _map() went on until Python refused another one
C24_Witness ==
    /\ nxres.st = "RecursionError"
    /\ Revisited
    /\ Len(Receivers) >= 3
    /\ Receivers[1] = "nexus" /\ Receivers[2] = "nexus2"
    /\ Receivers[3] = "nexus"

\* Without a receiver visited again, the resolution has ended at a
\* controller behind two maps
C24_Ended ==
    /\ nxres.st = "ret" /\ ~Revisited
    /\ Len(Receivers) = 3 /\ nxres.node = "ctrl"

(***************************************************************************)
(*                        The terminal controller                          *)
(***************************************************************************)
\* The receiver has neither a gpio-map nor a gpio-controller property
Neither(receiver) ==
    /\ "gpio-map" \notin DOMAIN nxnodes[receiver]
    /\ "gpio-controller" \notin DOMAIN nxnodes[receiver]

\* A call on such a receiver, named by the consumer or reached through a
\* row, fails
NeitherFails ==
    (nxres.st = "none" /\ nxstack # <<>> /\ Neither(Top.parent))
        => nxres' = NxError("expected controller property")

\* C25: whenever link resolution returns a final receiver, that receiver
\* declares the gpio-controller property; a receiver with neither a gpio-map
\* nor a gpio-controller property makes the resolution fail with "expected
\* 'gpio-controller' property", when the consumer names it and when a map
\* row leads to it.
C25_TerminalController ==
    /\ [](nxres.st = "ret" => "gpio-controller" \in DOMAIN nxnodes[nxres.node])
    /\ [][NeitherFails]_vars

\* The consumer names 'ctrl', which has no gpio-map and no gpio-controller,
\* and _map_gpio() has returned it
C25_Witness ==
    /\ nxres.st = "ret" /\ nxres.node = "ctrl"
    /\ Len(nxstack) = 1 /\ nxstack[1].fn = "_map_gpio"
    /\ nxstack[1].parent = "ctrl"
    /\ Neither("ctrl")

\* A row has led to 'ctrl', which has no gpio-map and no gpio-controller,
\* and _map() has failed
C25_ThroughRow ==
    /\ nxres = NxError("expected controller property")
    /\ Len(nxstack) >= 3 /\ Top.fn = "_map" /\ Top.parent = "ctrl"
    /\ Neither("ctrl")

(***************************************************************************)
(*                   The length of what pass-thru gives                    *)
(***************************************************************************)
\* The call nxstack[i] of _map() has matched a row on a receiver with a
\* gpio-map-pass-thru property and called _map() with what _pass_thru() gave
PassedThru(i) ==
    /\ i < Len(nxstack)
    /\ nxstack[i].fn = "_map"
    /\ "gpio-map-pass-thru" \in DOMAIN nxnodes[nxstack[i].parent]

\* C30: the specifier that gpio-map-pass-thru gives for a matched row has
\* the byte length of the parent specifier of the row, whatever that length,
\* zero included; a pass-thru property that is not as long as the child
\* specifier is refused with an EDTError.
C30_PassThruLength ==
    \A i \in DOMAIN nxstack :
        PassedThru(i) =>
            /\ Len(nxstack[i + 1].child_spec)
                  = Len(nxstack[i].row.parent_spec)
            /\ Len(nxnodes[nxstack[i].parent]["gpio-map-pass-thru"])
                  = Len(nxstack[i].child_spec)

\* The matched row has a parent specifier of no cell, and pass-thru has
\* given a specifier as long as the child specifier
C30_Witness ==
    /\ PassedThru(2)
    /\ nxstack[2].row.parent_spec = <<>>
    /\ nxstack[2].child_spec # <<>>
    /\ Len(nxstack[3].child_spec) = Len(nxstack[2].child_spec)
    /\ nxstack[3].parent = "ctrl"

\* The matched row has a parent specifier shorter than the child specifier,
\* and pass-thru has given a specifier of its length
C30_Shorter ==
    /\ PassedThru(2)
    /\ Len(nxstack[2].row.parent_spec) = 4
    /\ Len(nxstack[2].child_spec) = 8
    /\ Len(nxstack[3].child_spec) = 4


(***************************************************************************)
(*                      Translation stops at the root                      *)
(***************************************************************************)
\* The root carries a 'ranges' property
RootHasRanges == "ranges" \in DOMAIN tnodes[1].props

\* The calls of _translate() made so far for the node with 'reg'
Steps == Len(tnodes) - tcall.node

\* C28: for every node with a 'reg' property, address translation returns
\* an address after at most depth(node) steps, also when the root carries a
\* 'ranges' property, empty or not, and when the node is a child of the
\* root; translation never steps above the root.
C28_StopsAtRoot ==
    /\ tres.st # "AttributeError"
    /\ tcall.st = "call" => tcall.node >= 2
    /\ tcall.st \in {"call", "done"} => Steps < Len(tnodes)

\* The node with 'reg' is a child of the root, the root has an empty
\* 'ranges', and _translate() called on the root has read the properties of
\* its parent, None
C28_Witness ==
    /\ Len(tnodes) = 2 /\ RootHasRanges
    /\ tnodes[1].props["ranges"] = <<>>
    /\ tcall.st = "done" /\ tcall.node = 1
    /\ tres.st = "AttributeError"

\* The same with windows in the 'ranges' of the root: _address_cells() of
\* the root has read the properties of None
C28_RootWindows ==
    /\ Len(tnodes) = 2 /\ RootHasRanges
    /\ tnodes[1].props["ranges"] # <<>>
    /\ tcall.st = "done" /\ tcall.node = 2
    /\ tres.st = "AttributeError"

\* Without 'ranges' on the root the translation of a node at depth 3 has
\* returned an address after going through two sets of windows
C28_Returned ==
    /\ Len(tnodes) = 4 /\ ~RootHasRanges
    /\ tcall.st = "done" /\ tcall.node = 2
    /\ tres.st = "ret" /\ tres.addr # tcall.addr0


(***************************************************************************)
(*       edtlib.py: EDT._init_compat2binding() and EDT._init_devices()     *)
(*                                                                         *)
(* The device tree of the EDT has the nodes /, /a, /a/b and /b, which      *)
(* node_iter() gives in this order; /a/b can have a 'foo-gpios' property   *)
(* of one phandle with no cell after it.  A binding is the dictionary of   *)
(* a binding file, or the dictionary under its 'sub-node' key.             *)
(***************************************************************************)
BindingDict(path, compat, parent_bus, child_bus, sub_node) ==
    [path |-> path, compat |-> compat, parent_bus |-> parent_bus,
     child_bus |-> child_bus, sub_node |-> sub_node, is_sub |-> FALSE]

\* binding["sub-node"]
SubNode(b) ==
    [path |-> b.path, compat |-> b.compat, parent_bus |-> None,
     child_bus |-> None, sub_node |-> FALSE, is_sub |-> TRUE]

\* Device._binding of a device without binding
NoBinding ==
    [path |-> None, compat |-> None, parent_bus |-> None, child_bus |-> None,
     sub_node |-> FALSE, is_sub |-> FALSE]

\* _binding_bus(): the bus under 'parent:', None without one or without
\* binding
_binding_bus(b) == IF b = NoBinding THEN None ELSE b.parent_bus

\* _dt_compats(): the 'compatible' strings in the device tree
DtCompats(nodes) ==
    UNION {Range(nodes[path].compatible) :
              path \in {p \in DOMAIN nodes : nodes[p].has_compatible}}

\* The loop of _init_compat2binding() from the i-th binding file on: a file
\* whose compatible string is in the tree is stored under (compat, bus)
RECURSIVE Compat2BindingFrom(_, _, _, _)
Compat2BindingFrom(paths, compats, i, c2b) ==
    IF i > Len(paths) THEN c2b
    ELSE IF paths[i].compat \in compats
    THEN LET key == <<paths[i].compat, _binding_bus(paths[i])>>
         IN  Compat2BindingFrom(paths, compats, i + 1,
                 [k \in DOMAIN c2b \cup {key} |->
                     IF k = key THEN paths[i] ELSE c2b[k]])
    ELSE Compat2BindingFrom(paths, compats, i + 1, c2b)

\* No Device: what Device.parent is for the root
NoDevice ==
    [node |-> <<"None">>, name |-> None, compats |-> <<>>,
     matching_compat |-> None, _binding |-> NoBinding, binding_path |-> None,
     linked |-> FALSE, gpios |-> <<>>]

\* The Device of the node 'path' in devs, NoDevice without one
DeviceOf(devs, n2d, path) ==
    IF path \notin DOMAIN n2d THEN NoDevice
    ELSE LET i == CHOOSE i \in DOMAIN devs : devs[i].node = n2d[path]
         IN  devs[i]

\* Device.parent: self.edt._node2dev.get(self._node.parent)
DeviceParent(devs, n2d, path) ==
    IF path = <<>> THEN NoDevice ELSE DeviceOf(devs, n2d, Parent(path))

\* A bug: the bus of the parent binding is not looked at
BusNeverFromParent(parent) == None

\* _bus_from_parent_binding(): the bus under 'child:' of the binding of the
\* parent
_bus_from_parent_binding(parent) ==
    IF parent = NoDevice THEN None
    ELSE IF parent._binding # NoBinding THEN parent._binding.child_bus
    ELSE None

\* The loop over self.compats of _init_binding(), from the i-th on
RECURSIVE FirstMatch(_, _, _, _)
FirstMatch(compats, bus, c2b, i) ==
    IF i > Len(compats) THEN None
    ELSE IF <<compats[i], bus>> \in DOMAIN c2b THEN compats[i]
    ELSE FirstMatch(compats, bus, c2b, i + 1)

\* Device.__init__(): the Device of the node 'path', made by _init_binding()
_init_binding(nodes, devs, n2d, c2b, path) ==
    LET parent == DeviceParent(devs, n2d, path)
        dev == [NoDevice EXCEPT
                   !.node = path,
                   !.name = IF path = <<>> THEN "/" ELSE path[Len(path)]]
    IN
    IF nodes[path].has_compatible
    THEN LET compats == nodes[path].compatible
             bus == _bus_from_parent_binding(parent)
             compat == FirstMatch(compats, bus, c2b, 1)
         IN  IF compat # None
             THEN [dev EXCEPT !.compats = compats,
                              !.matching_compat = compat,
                              !._binding = c2b[<<compat, bus>>],
                              !.binding_path = c2b[<<compat, bus>>].path]
             ELSE [dev EXCEPT !.compats = compats]
    ELSE IF parent # NoDevice /\ parent._binding # NoBinding
            /\ parent._binding.sub_node
    THEN [dev EXCEPT !._binding = SubNode(parent._binding),
                     !.binding_path = parent.binding_path,
                     !.matching_compat = parent.matching_compat]
    ELSE dev

\* _init_gpios() of the device of 'path' from the i-th phandle of its
\* 'foo-gpios' on: _phandle_val_list() looks the phandle up, the Device of
\* the node is taken from _node2dev, and _named_cells() wants its binding
RECURSIVE InitGpiosFrom(_, _, _, _, _, _)
InitGpiosFrom(nodes, p2n, devs, n2d, phandles, i) ==
    IF i > Len(phandles) THEN [st |-> "ok", gpios |-> <<>>]
    ELSE IF phandles[i] \notin DOMAIN p2n
    THEN [st |-> "EDTError", gpios |-> <<>>]
    ELSE LET controller_node == p2n[phandles[i]]
         IN  IF controller_node \notin DOMAIN n2d
             THEN [st |-> "KeyError", gpios |-> <<>>]
             ELSE IF DeviceOf(devs, n2d, controller_node)._binding = NoBinding
             THEN [st |-> "EDTError", gpios |-> <<>>]
             ELSE LET more == InitGpiosFrom(nodes, p2n, devs, n2d, phandles,
                                            i + 1)
                  IN  IF more.st # "ok" THEN more
                      ELSE [st |-> "ok",
                            gpios |-> <<n2d[controller_node]>> \o more.gpios]

\* How sorted() orders the names of the devices: "/" comes before a letter
DeviceNameRank(name) == IF name = "/" THEN 0 ELSE NameRank(name)

\* self.devices.sort(key=lambda dev: dev.name): the order of devices with
\* the same name is kept
RECURSIVE SortedFrom(_, _)
SortedFrom(devs, rank) ==
    IF rank > 6 THEN <<>>
    ELSE SelectSeq(devs, LAMBDA d : DeviceNameRank(d.name) = rank)
         \o SortedFrom(devs, rank + 1)

DeviceKeeps ==
    UNCHANGED <<mergevars, transvars, nexusvars, buildvars, parservars,
                exprvars, lexvars, query>>

\* EDT.__init__(): self._init_compat2binding(bindings_dir)
InitCompat2Binding ==
    /\ edt_pc = "init_compat2binding"
    /\ _compat2binding' =
           Compat2BindingFrom(bindings_dir, DtCompats(_dt.nodes), 1, <<>>)
    /\ edt_pc' = "create"
    /\ UNCHANGED <<_dt, bindings_dir, devices, _node2dev>>
    /\ DeviceKeeps

\* One iteration of the first loop of _init_devices(): the Device of the
\* next node of node_iter() is made and stored
CreateDevice ==
    /\ edt_pc = "create"
    /\ LET order == node_iter(_dt.nodes)
           node == order[Len(devices) + 1]
           dev == _init_binding(_dt.nodes, devices, _node2dev,
                                _compat2binding, node)
       IN  /\ devices' = Append(devices, dev)
           /\ _node2dev' = [n \in DOMAIN _node2dev \cup {node} |-> n]
           /\ edt_pc' = IF Len(devices) + 1 = Len(order) THEN "links"
                        ELSE "create"
    /\ UNCHANGED <<_dt, bindings_dir, _compat2binding>>
    /\ DeviceKeeps

\* One iteration of the second loop of _init_devices(): the links of the
\* next Device are resolved; after the last one the devices are sorted
InitLinks ==
    /\ edt_pc = "links"
    /\ LET i == CHOOSE i \in DOMAIN devices :
                   ~devices[i].linked /\ \A j \in 1..(i - 1) : devices[j].linked
           r == InitGpiosFrom(_dt.nodes, _dt.phandle2node, devices, _node2dev,
                              _dt.nodes[devices[i].node].gpios, 1)
           linked == [devices EXCEPT ![i].linked = TRUE, ![i].gpios = r.gpios]
       IN  IF r.st # "ok"
           THEN edt_pc' = r.st /\ UNCHANGED devices
           ELSE IF i = Len(devices)
           THEN edt_pc' = "done" /\ devices' = SortedFrom(linked, 0)
           ELSE edt_pc' = "links" /\ devices' = linked
    /\ UNCHANGED <<_dt, bindings_dir, _compat2binding, _node2dev>>
    /\ DeviceKeeps

DeviceNext == InitCompat2Binding \/ CreateDevice \/ InitLinks

(***************************************************************************)
(* The trees and binding directories the devices are made from             *)
(***************************************************************************)
DtNode(has_compatible, compatible, gpios) ==
    [has_compatible |-> has_compatible, compatible |-> compatible,
     gpios |-> gpios]

Plain == DtNode(FALSE, <<>>, <<>>)

\* 'compatible' of /a/b
DevCompatibles ==
    {<<"vnd,dev">>, <<"vnd,other", "vnd,dev">>, <<"vnd,dev", "vnd,generic">>,
     <<"vnd,generic", "vnd,dev">>}

\* 'foo-gpios' of /a/b: no property, or the phandle of /b, of the node /x
\* that is not in the tree, or of no node
GpioChoices == {<<>>, <<1>>, <<2>>, <<9>>}

\* phandle2node: /b has the phandle 1; with 'stale', the phandle 2 is left
\* for /x, a node that '/omit-if-no-ref/' took from the tree
Phandle2nodeChoices == {1 :> <<"b">>, (1 :> <<"b">>) @@ (2 :> <<"x">>)}

DtChoices ==
    {[nodes |-> (<<>> :> Plain) @@ (<<"a">> :> a) @@ (<<"a", "b">> :> ab)
                @@ (<<"b">> :> b),
      phandle2node |-> p2n] :
        a \in {Plain, DtNode(TRUE, <<"vnd,bus">>, <<>>)},
        ab \in {DtNode(FALSE, <<>>, g) : g \in GpioChoices}
               \cup {DtNode(TRUE, c, g) : c \in DevCompatibles,
                                          g \in GpioChoices},
        b \in {Plain, DtNode(TRUE, <<"vnd,generic">>, <<>>)},
        p2n \in Phandle2nodeChoices}

\* The binding files, in the order of _binding_paths(); each can be missing
BusFiles ==
    {<<>>} \cup {<<BindingDict("bus.yaml", "vnd,bus", None, child_bus, sub_node)>> :
                    child_bus \in {None, "i2c", "spi"}, sub_node \in BOOLEAN}

OneOrNone(file) == {<<>>, <<file>>}

BindingDirChoices ==
    {bus \o i2c \o nobus \o gen \o genspi :
        bus \in BusFiles,
        i2c \in OneOrNone(BindingDict("dev-i2c.yaml", "vnd,dev", "i2c", None, FALSE)),
        nobus \in OneOrNone(BindingDict("dev.yaml", "vnd,dev", None, None, FALSE)),
        gen \in OneOrNone(BindingDict("gen.yaml", "vnd,generic", None, None, FALSE)),
        genspi \in OneOrNone(BindingDict("gen-spi.yaml", "vnd,generic", "spi",
                                     None, FALSE))}

DeviceInit ==
    /\ _dt \in DtChoices
    /\ bindings_dir \in BindingDirChoices
    /\ _compat2binding = <<>> /\ devices = <<>> /\ _node2dev = <<>>
    /\ edt_pc = "init_compat2binding"
    /\ MergeIdle /\ TransIdle /\ NexusIdle /\ BuildIdle
    /\ ParserIdle /\ ExprIdle /\ LexIdle /\ QueryIdle

DeviceSpec == DeviceInit /\ [][DeviceNext]_vars


(***************************************************************************)
(*                      Two passes over the devices                        *)
(***************************************************************************)
\* The nodes of the devices, in the order of self.devices
DeviceNodes == [i \in DOMAIN devices |-> devices[i].node]

\* While the passes run, the devices are those of the first nodes of
\* node_iter(), in its order
CreatedInPreOrder ==
    edt_pc \in {"create", "links"}
        => DeviceNodes = SubSeq(node_iter(_dt.nodes), 1, Len(devices))

\* When the Device of a node is made, the Device of its parent node is
\* there, and it keeps its binding
ParentFirst ==
    (edt_pc = "create" /\ Len(devices') = Len(devices) + 1)
        => LET node == devices'[Len(devices')].node
           IN  node # <<>>
                  => /\ Parent(node) \in DOMAIN _node2dev
                     /\ DeviceOf(devices', _node2dev', Parent(node))._binding
                           = DeviceOf(devices, _node2dev, Parent(node))._binding

\* The binding of a Device is never changed once it is made
BindingsFixed ==
    \A path \in DOMAIN _node2dev :
        DeviceOf(devices', _node2dev', path)._binding
            = DeviceOf(devices, _node2dev, path)._binding

\* No link is resolved before every node of the tree has its Device
NoLinkBeforeAll ==
    (edt_pc \in {"links", "done", "KeyError", "EDTError"}
        \/ \E i \in DOMAIN devices : devices[i].linked)
        => DOMAIN _node2dev = DOMAIN _dt.nodes

\* Every controller node that link resolution returns has a Device
ControllersHaveDevice ==
    /\ edt_pc # "KeyError"
    /\ \A i \in DOMAIN devices :
          Range(devices[i].gpios) \subseteq DOMAIN _node2dev

\* C22: Devices are created in tree pre-order, so when the binding of a
\* Device is determined the Device of its parent node exists with its
\* binding fixed; no link of any Device is resolved before a Device exists
\* for every node of the tree, so every controller node returned by link
\* resolution has a Device.
C22_TwoPassConstruction ==
    /\ [](CreatedInPreOrder /\ NoLinkBeforeAll /\ ControllersHaveDevice)
    /\ [][ParentFirst /\ BindingsFixed]_vars

\* The order of the two passes alone
C22_Order ==
    /\ [](CreatedInPreOrder /\ NoLinkBeforeAll)
    /\ [][ParentFirst /\ BindingsFixed]_vars

\* Every node of the tree has its Device, 'foo-gpios' of /a/b names the
\* phandle 2, which phandle2node has for the node /x taken from the tree,
\* and the lookup of the Device of /x has ended the constructor with a
\* KeyError
C22_Witness ==
    /\ edt_pc = "KeyError"
    /\ DOMAIN _node2dev = DOMAIN _dt.nodes
    /\ _dt.nodes[<<"a", "b">>].gpios = <<2>>
    /\ _dt.phandle2node[2] = <<"x">>
    /\ <<"x">> \notin DOMAIN _dt.nodes

\* /a/b, made before /b, has /b as the controller of its GPIO
C22_LaterController ==
    /\ edt_pc = "done"
    /\ DeviceOf(devices, _node2dev, <<"a", "b">>).gpios = <<<<"b">>>>


(***************************************************************************)
(*                            Binding selection                            *)
(***************************************************************************)
\* The binding of the Device of the parent node, NoBinding for the root
ParentBinding(path) ==
    IF path = <<>> THEN NoBinding
    ELSE DeviceOf(devices, _node2dev, Parent(path))._binding

\* The child bus that the binding of the parent device declares
ParentChildBus(path) ==
    IF ParentBinding(path) = NoBinding THEN None
    ELSE ParentBinding(path).child_bus

\* The binding files registered under the key (c, bus)
RegisteredUnder(c, bus) ==
    {file \in Range(bindings_dir) : file.compat = c /\ file.parent_bus = bus}

\* The places in 'compatible' whose string has a binding under the bus
Matching(path) ==
    {i \in DOMAIN _dt.nodes[path].compatible :
        RegisteredUnder(_dt.nodes[path].compatible[i], ParentChildBus(path))
            # {}}

HasNoBinding(dev) ==
    /\ dev._binding = NoBinding
    /\ dev.matching_compat = None
    /\ dev.binding_path = None

\* The binding of the device is the one the claim gives it
SelectedAsClaimed(dev) ==
    LET path == dev.node
        node == _dt.nodes[path]
    IN  IF node.has_compatible
        THEN IF Matching(path) # {}
             THEN LET i == CHOOSE i \in Matching(path) :
                              \A j \in Matching(path) : i <= j
                  IN  /\ dev.matching_compat = node.compatible[i]
                      /\ dev._binding
                            \in RegisteredUnder(node.compatible[i],
                                                ParentChildBus(path))
                      /\ dev.binding_path = dev._binding.path
             ELSE HasNoBinding(dev)
        ELSE IF ParentBinding(path) # NoBinding /\ ParentBinding(path).sub_node
        THEN /\ dev._binding = SubNode(ParentBinding(path))
             /\ dev.matching_compat
                   = DeviceOf(devices, _node2dev, Parent(path)).matching_compat
             /\ dev.binding_path
                   = DeviceOf(devices, _node2dev, Parent(path)).binding_path
        ELSE HasNoBinding(dev)

\* C23: a device with 'compatible' gets the binding registered under (c,
\* bus) for the first string c of its compatible list that has one, bus
\* being the child bus that the binding of its parent device declares (none
\* without parent binding or child bus); a binding for the same string
\* under another bus is never selected.  A device without 'compatible' gets
\* the 'sub-node' binding and the matching compatible of its parent when the
\* binding of the parent has a 'sub-node' key; any other device has no
\* binding.
C23_BindingSelection ==
    \A i \in DOMAIN devices : SelectedAsClaimed(devices[i])

\* /a is a bus with 'child: bus: i2c', the directory has 'vnd,dev' for i2c
\* and for no bus, and /a/b with 'vnd,other' and 'vnd,dev' has got the
\* binding for i2c
C23_Witness ==
    /\ edt_pc = "done"
    /\ ParentChildBus(<<"a", "b">>) = "i2c"
    /\ _dt.nodes[<<"a", "b">>].compatible = <<"vnd,other", "vnd,dev">>
    /\ RegisteredUnder("vnd,dev", None) # {}
    /\ DeviceOf(devices, _node2dev, <<"a", "b">>).binding_path = "dev-i2c.yaml"
    /\ DeviceOf(devices, _node2dev, <<"a", "b">>).matching_compat = "vnd,dev"

\* /a/b has no 'compatible' and has got the 'sub-node' binding of /a
C23_SubNode ==
    /\ edt_pc = "done"
    /\ ~_dt.nodes[<<"a", "b">>].has_compatible
    /\ DeviceOf(devices, _node2dev, <<"a", "b">>)._binding.is_sub
    /\ DeviceOf(devices, _node2dev, <<"a", "b">>).matching_compat = "vnd,bus"

\* /a/b is on the spi bus, 'vnd,dev' has bindings for i2c and for no bus
\* only, and /a/b has got the binding of its second string, for spi
C23_SecondString ==
    /\ edt_pc = "done"
    /\ ParentChildBus(<<"a", "b">>) = "spi"
    /\ _dt.nodes[<<"a", "b">>].compatible = <<"vnd,dev", "vnd,generic">>
    /\ RegisteredUnder("vnd,dev", None) # {}
    /\ DeviceOf(devices, _node2dev, <<"a", "b">>).binding_path = "gen-spi.yaml"
====
